---------------------------- MODULE Spec2Model ----------------------------
(***************************************************************************)
(* k8s-cost-optimizer: the operator's reconciliation loop (create, update, *)
(* periodic tick, delete), the apply / snapshot / rollback handlers, the   *)
(* admission webhook and the recommender, as state machines.               *)
(*                                                                         *)
(* Python dicts are functions; an absent key is a key outside DOMAIN.      *)
(* Money is in integer units, confidence in hundredths.                    *)
(***************************************************************************)
EXTENDS Integers, Sequences, FiniteSets, TLC

VARIABLES
    decl,        \* the CostOptimization object: [metadata, spec]
    life,        \* "new" | "active" | "deleted"
    status,      \* the object's status: phase, message, counters, handler results
    workload,    \* the live target workload in the cluster
    redis,       \* fast snapshot tier: key -> state
    configmaps,  \* durable snapshot tier: <<namespace, name>> -> state
    last,        \* what the last handler invocation did
    origin,      \* the workload as it was when a snapshot was last stored
    steps,       \* number of ticks and updates handled so far
    request,     \* the workload and metrics handed to the Recommender
    recommendations  \* the list generate_recommendations returned

vars == <<decl, life, status, workload, redis, configmaps, last, origin, steps,
          request, recommendations>>

(***************************************************************************)
(* Bounds                                                                  *)
(***************************************************************************)
MaxSteps == 2

(***************************************************************************)
(* dict helpers                                                            *)
(***************************************************************************)
Get(d, k, default) == IF k \in DOMAIN d THEN d[k] ELSE default

EmptyDict == [k \in {} |-> 0]

Put(d, k, v) == [x \in DOMAIN d \cup {k} |-> IF x = k THEN v ELSE d[x]]


(***************************************************************************)
(* Names of the single target workload and of the declaration              *)
(***************************************************************************)
WorkloadName == "web"

SupportedKinds == {"Deployment", "StatefulSet", "DaemonSet"}

\* No call of the Recommender has been made.
NoRequest == [made |-> FALSE]

\* What a read of a workload that is not in the cluster stands for.
NoWorkload == [exists |-> FALSE, replicas |-> 0, containers |-> <<>>, annotations |-> {}]

(***************************************************************************)
(* RollbackHandler: snapshot store (fast tier redis, durable tier          *)
(* ConfigMap) and rollback                                                 *)
(***************************************************************************)

\* The resource fields of the FIRST container, as a flat dict; a missing
\* cpu/memory entry of a non-empty requests/limits dict is recorded as "0".
extract_resources(w) ==
    IF Len(w.containers) = 0 THEN EmptyDict
    ELSE LET c == w.containers[1]
             req == IF DOMAIN c.requests # {}
                    THEN [k \in {"cpu_request", "memory_request"} |->
                            IF k = "cpu_request" THEN Get(c.requests, "cpu", "0")
                                                 ELSE Get(c.requests, "memory", "0")]
                    ELSE EmptyDict
             lim == IF DOMAIN c.limits # {}
                    THEN [k \in {"cpu_limit", "memory_limit"} |->
                            IF k = "cpu_limit" THEN Get(c.limits, "cpu", "0")
                                               ELSE Get(c.limits, "memory", "0")]
                    ELSE EmptyDict
         IN  [k \in DOMAIN req \cup DOMAIN lim |->
                IF k \in DOMAIN req THEN req[k] ELSE lim[k]]

\* key = f"rollback:{namespace}:{workload_kind}:{workload_name}"
redis_key(namespace, kind, name) == <<"rollback", namespace, kind, name>>

\* configmap_name = f"{workload_name}-rollback-state", in the namespace
configmap_key(namespace, name) == <<namespace, name, "rollback-state">>

\* The snapshot written for workload w. A DaemonSet spec has no replicas
\* field: reading it raises, which store_original_state catches.
snapshot_state(name, kind, namespace, w) ==
    [workload_name |-> name, workload_kind |-> kind, namespace |-> namespace,
     replicas |-> w.replicas, resources |-> extract_resources(w)]

\* create_namespaced_config_map, and replace on 409: an upsert. On any API
\* error nothing is written and False is returned.
store_in_configmap(cms, namespace, name, state, cm_outcome) ==
    IF cm_outcome = "ok"
    THEN [configmaps |-> Put(cms, configmap_key(namespace, name), state), ok |-> TRUE]
    ELSE [configmaps |-> cms, ok |-> FALSE]

\* The writes of store_original_state once the state dict is built.
store_state(rds, cms, name, kind, namespace, state, redis_outcome, cm_outcome) ==
    [redis |-> IF redis_outcome = "ok"
               THEN Put(rds, redis_key(namespace, kind, name), state)
               ELSE rds,
     configmaps |-> store_in_configmap(cms, namespace, name, state, cm_outcome).configmaps,
     ok |-> TRUE]

\* redis_outcome: "none" (no client), "ok", "raise" (setex throws).
store_original_state(rds, cms, name, kind, namespace, w, redis_outcome, cm_outcome) ==
    IF kind = "DaemonSet" \/ redis_outcome = "raise"
    THEN [redis |-> rds, configmaps |-> cms, ok |-> FALSE]
    ELSE store_state(rds, cms, name, kind, namespace,
                     snapshot_state(name, kind, namespace, w),
                     redis_outcome, cm_outcome)

\* A load that asks the durable tier first.
get_durable_first(rds, cms, name, kind, namespace, has_redis, redis_read, cm_read) ==
    LET rk == redis_key(namespace, kind, name)
        ck == configmap_key(namespace, name)
    IN  IF cm_read = "ok" /\ ck \in DOMAIN cms
        THEN [found |-> TRUE, state |-> cms[ck], tier |-> "configmap", raised |-> FALSE]
        ELSE IF has_redis /\ redis_read = "ok" /\ rk \in DOMAIN rds
        THEN [found |-> TRUE, state |-> rds[rk], tier |-> "redis", raised |-> FALSE]
        ELSE [found |-> FALSE, state |-> EmptyDict, tier |-> "none",
              raised |-> cm_read = "raise"]

\* Fast tier first (when there is a client and the read does not throw),
\* then the durable tier; found = FALSE is the code's None. cm_read: "ok"
\* (the ConfigMap or a 404), "error" (another ApiException, which is
\* logged), "raise" (an exception that is not an ApiException, which
\* leaves the function).
get_original_state(rds, cms, name, kind, namespace, has_redis, redis_read, cm_read) ==
    LET rk == redis_key(namespace, kind, name)
        ck == configmap_key(namespace, name)
    IN  IF has_redis /\ redis_read = "ok" /\ rk \in DOMAIN rds
        THEN [found |-> TRUE, state |-> rds[rk], tier |-> "redis", raised |-> FALSE]
        ELSE IF cm_read = "ok" /\ ck \in DOMAIN cms
        THEN [found |-> TRUE, state |-> cms[ck], tier |-> "configmap", raised |-> FALSE]
        ELSE [found |-> FALSE, state |-> EmptyDict, tier |-> "none",
              raised |-> cm_read = "raise"]

\* The loop body of _rollback_deployment / _rollback_statefulset on one
\* container: only the keys present in the snapshot's resources are set.
rollback_container(c, resources) ==
    LET req1 == IF "cpu_request" \in DOMAIN resources
                THEN Put(c.requests, "cpu", resources["cpu_request"]) ELSE c.requests
        req2 == IF "memory_request" \in DOMAIN resources
                THEN Put(req1, "memory", resources["memory_request"]) ELSE req1
        lim1 == IF "cpu_limit" \in DOMAIN resources
                THEN Put(c.limits, "cpu", resources["cpu_limit"]) ELSE c.limits
        lim2 == IF "memory_limit" \in DOMAIN resources
                THEN Put(lim1, "memory", resources["memory_limit"]) ELSE lim1
    IN  [requests |-> req2, limits |-> lim2]

\* _rollback_deployment and _rollback_statefulset (same body): read, set
\* replicas and every container's resources from the snapshot, stamp the
\* rolled-back annotations, patch. api: "ok" | "error" (read or patch fails).
rollback_workload(w, original_state, api) ==
    IF ~w.exists \/ api # "ok"
    THEN [workload |-> w, ok |-> FALSE]
    ELSE LET resources == Get(original_state, "resources", EmptyDict)
         IN  [workload |->
                [w EXCEPT !.replicas = Get(original_state, "replicas", 1),
                          !.containers = [i \in 1..Len(w.containers) |->
                                            rollback_container(w.containers[i], resources)],
                          !.annotations = @ \cup {"rolled-back"}],
              ok |-> TRUE]

\* What validate_rollback's read of the workload returns: the workload as
\* patched ("ok"), nothing because it is gone ("missing"), or the workload
\* after another writer has scaled it since the patch ("drift"). On
\* "error" the read throws.
reread(w, read) ==
    IF read = "missing" THEN NoWorkload
    ELSE IF read = "drift" THEN [w EXCEPT !.replicas = @ + 1]
    ELSE w

\* validate_rollback on the workload w it has read: compares replicas and
\* the cpu/memory requests present in the snapshot. Read-only.
validate_rollback(w, original_state, read) ==
    IF ~w.exists \/ read = "error" THEN FALSE
    ELSE IF w.replicas # Get(original_state, "replicas", 1) THEN FALSE
    ELSE LET current == extract_resources(w)
             expected == Get(original_state, "resources", EmptyDict)
         IN  \A key \in {"cpu_request", "memory_request"} :
                key \in DOMAIN expected =>
                    (key \in DOMAIN current /\ current[key] = expected[key])

\* An execute_rollback that patches once more when the validation fails.
rollback_retrying(r, original_state, read) ==
    [workload |-> r.workload, ok |-> r.ok,
     patches |-> IF ~r.ok THEN 0
                 ELSE IF validate_rollback(reread(r.workload, read), original_state, read)
                 THEN 1 ELSE 2,
     validated |-> r.ok /\ validate_rollback(reread(r.workload, read), original_state, read)]

\* The result of execute_rollback once the patch has been tried: the
\* validation follows a successful patch and its result is only logged.
rollback_result(r, original_state, read) ==
    [workload |-> r.workload, ok |-> r.ok,
     patches |-> IF r.ok THEN 1 ELSE 0,
     validated |-> r.ok /\ validate_rollback(reread(r.workload, read), original_state, read)]

\* An execute_rollback that patches from an empty state when it finds no
\* snapshot.
rollback_without_snapshot(w, original, kind, env) ==
    IF kind \in {"Deployment", "StatefulSet"}
    THEN rollback_result(rollback_workload(w, original.state, env.patch),
                         original.state, env.read)
    ELSE [workload |-> w, ok |-> FALSE, patches |-> 0, validated |-> FALSE]

\* execute_rollback after the snapshot lookup.
rollback_from(w, original, kind, env) ==
    IF ~original.found
    THEN [workload |-> w, ok |-> FALSE, patches |-> 0, validated |-> FALSE]
    ELSE IF kind \in {"Deployment", "StatefulSet"}
    THEN rollback_result(rollback_workload(w, original.state, env.patch),
                         original.state, env.read)
    ELSE [workload |-> w, ok |-> FALSE, patches |-> 0, validated |-> FALSE]

\* execute_rollback: load the snapshot, dispatch on the kind, patch once,
\* validate (the validation result is only logged). env carries the
\* outcomes of the calls to redis and to the cluster API.
execute_rollback(w, rds, cms, name, kind, namespace, has_redis, env) ==
    rollback_from(w,
                  get_original_state(rds, cms, name, kind, namespace,
                                     has_redis, env.redis_read, env.cm_read),
                  kind, env)

(***************************************************************************)
(* OptimizationHandler: analyze and apply                                  *)
(***************************************************************************)

\* max(recommendations, key=monthly_savings): the first element among
\* those with the largest savings.
best_recommendation(recs) ==
    LET top == CHOOSE i \in 1..Len(recs) :
                  /\ \A j \in 1..Len(recs) : recs[j].monthly_savings <= recs[i].monthly_savings
                  /\ \A j \in 1..(i - 1) : recs[j].monthly_savings < recs[i].monthly_savings
    IN  recs[top]

NoRecommendation == [found |-> FALSE]

\* An analysis that reads the body of the answer whatever its status is.
analyze_ignoring_status(w, kind, read, response) ==
    IF kind \notin SupportedKinds \/ read # "ok" \/ ~w.exists THEN NoRecommendation
    ELSE IF Len(response.recommendations) = 0 THEN NoRecommendation
    ELSE [found |-> TRUE, rec |-> best_recommendation(response.recommendations)]

\* analyze_workload: None when the workload cannot be read, when the API
\* answers non-200 or throws (response.ok = FALSE) or returns no
\* recommendation; else the recommendation with the largest savings.
analyze_workload(w, kind, read, response) ==
    IF kind \notin SupportedKinds \/ read # "ok" \/ ~w.exists THEN NoRecommendation
    ELSE IF ~response.ok THEN NoRecommendation
    ELSE IF Len(response.recommendations) = 0 THEN NoRecommendation
    ELSE [found |-> TRUE, rec |-> best_recommendation(response.recommendations)]

\* The loop body of _apply_deployment_optimization on one container; it is
\* entered only when the config has a cpu_request or a memory_request.
apply_container(c, config) ==
    LET req1 == IF "cpu_request" \in DOMAIN config
                THEN Put(c.requests, "cpu", config["cpu_request"]) ELSE c.requests
        req2 == IF "memory_request" \in DOMAIN config
                THEN Put(req1, "memory", config["memory_request"]) ELSE req1
        lim1 == IF "cpu_limit" \in DOMAIN config
                THEN Put(c.limits, "cpu", config["cpu_limit"]) ELSE c.limits
        lim2 == IF "memory_limit" \in DOMAIN config
                THEN Put(lim1, "memory", config["memory_limit"]) ELSE lim1
    IN  [requests |-> req2, limits |-> lim2]

\* _apply_deployment_optimization and _apply_statefulset_optimization
\* (same body): read, set replicas and the containers' resources from the
\* config, stamp the optimized-at/by annotations, patch.
apply_workload_optimization(w, config, api) ==
    IF ~w.exists \/ api # "ok"
    THEN [workload |-> w, ok |-> FALSE]
    ELSE LET reps == IF "replicas" \in DOMAIN config THEN config["replicas"] ELSE w.replicas
             cs == IF "cpu_request" \in DOMAIN config \/ "memory_request" \in DOMAIN config
                   THEN [i \in 1..Len(w.containers) |-> apply_container(w.containers[i], config)]
                   ELSE w.containers
         IN  [workload |-> [w EXCEPT !.replicas = reps,
                                     !.containers = cs,
                                     !.annotations = @ \cup {"optimized"}],
              ok |-> TRUE]

\* The patch step of apply_optimization, by kind.
apply_by_kind(w, st, stored, kind, config, env) ==
    IF kind \in {"Deployment", "StatefulSet"}
    THEN LET a == apply_workload_optimization(w, config, env.patch)
         IN  [workload |-> a.workload, redis |-> st.redis, configmaps |-> st.configmaps,
              ok |-> a.ok, stored |-> stored, patched |-> a.ok]
    ELSE [workload |-> w, redis |-> st.redis, configmaps |-> st.configmaps,
          ok |-> FALSE, stored |-> stored, patched |-> FALSE]

\* An apply that stores and patches whatever dry_run says.
apply_ignoring_dry_run(w, rds, cms, name, kind, namespace, recommendation, dry_run, env) ==
    IF kind \notin SupportedKinds \/ env.read # "ok" \/ ~w.exists
    THEN [workload |-> w, redis |-> rds, configmaps |-> cms,
          ok |-> FALSE, stored |-> FALSE, patched |-> FALSE]
    ELSE apply_by_kind(w,
                       store_original_state(rds, cms, name, kind, namespace, w,
                                            env.redis_write, env.cm_write),
                       TRUE, kind, recommendation.recommended_config, env)

\* apply_optimization: read the workload; unless dry_run, store its state
\* (the result of the store is not looked at); on dry_run return True
\* without a change; else patch by kind. env carries the API outcomes.
\* stored: whether the store wrote to some tier.
apply_optimization(w, rds, cms, name, kind, namespace, recommendation, dry_run, env) ==
    IF kind \notin SupportedKinds \/ env.read # "ok" \/ ~w.exists
    THEN [workload |-> w, redis |-> rds, configmaps |-> cms,
          ok |-> FALSE, stored |-> FALSE, patched |-> FALSE]
    ELSE IF dry_run
    THEN [workload |-> w, redis |-> rds, configmaps |-> cms,
          ok |-> TRUE, stored |-> FALSE, patched |-> FALSE]
    ELSE apply_by_kind(w,
                       store_original_state(rds, cms, name, kind, namespace, w,
                                            env.redis_write, env.cm_write),
                       kind # "DaemonSet" /\ env.redis_write # "raise"
                           /\ (env.redis_write = "ok" \/ env.cm_write = "ok"),
                       kind, recommendation.recommended_config, env)

(***************************************************************************)
(* Inputs of the controller: declarations, workloads, API answers          *)
(***************************************************************************)
WorkloadNamespace == "default"

\* An optional key: absent, or present with one of the values.
Opt(k, values) == {EmptyDict} \cup {(k :> v) : v \in values}

\* What the recommendation API can answer with: the risk levels as the
\* optimizer API serialises them (RiskLevel values, lower case) and as the
\* operator's risk table spells them (upper case).
RiskLevelValues == {"low", "medium", "LOW", "MEDIUM", "HIGH"}

FullContainer ==
    [requests |-> [cpu |-> "500m", memory |-> "512Mi"],
     limits   |-> [cpu |-> "500m", memory |-> "512Mi"]]

BareContainer == [requests |-> EmptyDict, limits |-> EmptyDict]

RightSizeConfig ==
    [cpu_request |-> "250m", memory_request |-> "256Mi",
     cpu_limit |-> "250m", memory_limit |-> "256Mi", replicas |-> 3]

ReplicaConfig == [replicas |-> 2]

DeleteConfig == [action |-> "delete"]

RecommendedConfigs == {RightSizeConfig, ReplicaConfig, DeleteConfig}

Recommendations ==
    [monthly_savings : {10}, confidence_score : {50, 70},
     level : RiskLevelValues, recommended_config : RecommendedConfigs]

\* Two-element answers, to exercise the choice of the best recommendation.
PairRecommendations ==
    [monthly_savings : {10, 25}, confidence_score : {70},
     level : {"LOW", "HIGH"}, recommended_config : {ReplicaConfig}]

\* ok = FALSE: a status other than 200, or a call that throws (a timeout, a
\* refused connection); the body of such an answer is not read.
ApiResponses ==
    {[ok |-> FALSE, recommendations |-> <<>>], [ok |-> TRUE, recommendations |-> <<>>]}
    \cup {[ok |-> FALSE, recommendations |-> <<r>>] :
            r \in {x \in Recommendations : x.confidence_score = 70 /\ x.level = "LOW"}}
    \cup {[ok |-> TRUE, recommendations |-> <<r>>] : r \in Recommendations}
    \cup {[ok |-> TRUE, recommendations |-> <<r1, r2>>] :
            r1 \in PairRecommendations, r2 \in PairRecommendations}

\* Outcomes of the calls a handler makes to the cluster API and to redis.
Envs ==
    [read : {"ok", "error"}, patch : {"ok", "error"},
     redis_write : {"none", "ok", "raise"}, cm_write : {"ok", "error"},
     redis_read : {"ok", "raise"}, cm_read : {"ok", "error"}]

ApplyEnvs == {e \in Envs : e.redis_read = "ok" /\ e.cm_read = "ok"}

\* The outcomes of the calls of execute_rollback; read is the outcome of
\* the read validate_rollback makes.
RollbackEnvs ==
    {[e EXCEPT !.read = r] :
        e \in {x \in Envs : x.redis_write = "none" /\ x.cm_write = "ok"},
        r \in {"ok", "error", "missing", "drift"}}

ControllerSpecs ==
    {[targetWorkload |-> [name |-> WorkloadName, kind |-> k],
      optimizationType |-> "CPU", minConfidence |-> 70, maxChangePercent |-> 40,
      autoApply |-> a] @@ d @@ m @@ r :
        k \in {"Deployment", "DaemonSet", "CronJob"}, a \in BOOLEAN,
        d \in {("dryRun" :> v) : v \in BOOLEAN},
        m \in {("maxRiskLevel" :> v) : v \in {"LOW", "MEDIUM"}},
        r \in Opt("rollbackOnFailure", {FALSE})}

InitialWorkloads ==
    {NoWorkload}
    \cup {[exists |-> TRUE, replicas |-> 3, containers |-> <<c>>, annotations |-> {}] :
            c \in {FullContainer}}

(***************************************************************************)
(* The operator's handlers (main.py)                                       *)
(***************************************************************************)
\* The status the mutating webhook injects into a new object.
InitialStatus ==
    [phase |-> "Pending", message |-> <<"CostOptimization created">>,
     appliedOptimizations |-> 0, totalSavings |-> 0, results |-> EmptyDict]

NoRec == [monthly_savings |-> 0, confidence_score |-> 0, level |-> "none"]

Idle ==
    [op |-> "none", found |-> FALSE, rec |-> NoRec, attempted |-> FALSE,
     success |-> FALSE, stored |-> FALSE, patched |-> FALSE,
     rollbacks |-> 0, rollback_ok |-> FALSE, patches |-> 0, validated |-> FALSE,
     raised |-> FALSE, api_read |-> "none", api_answer |-> "none", config |-> EmptyDict,
     response |-> [allowed |-> FALSE, code |-> 0, message |-> ""]]

\* The namespace kopf hands to a handler: the object's own, which the API
\* server sets to "default" for an object submitted without one.
object_namespace(d) == Get(d.metadata, "namespace", "default")

\* target.get('namespace', namespace)
target_namespace(d) ==
    Get(Get(d.spec, "targetWorkload", EmptyDict), "namespace", object_namespace(d))

target_kind(d) == Get(Get(d.spec, "targetWorkload", EmptyDict), "kind", "None")

target_name(d) == Get(Get(d.spec, "targetWorkload", EmptyDict), "name", "None")

\* The object the cluster API returns for (namespace, name).
live(w, namespace, name) ==
    IF namespace = WorkloadNamespace /\ name = WorkloadName
    THEN w
    ELSE NoWorkload

risk_levels == [LOW |-> 1, MEDIUM |-> 2, HIGH |-> 3, CRITICAL |-> 4]

\* A gate that looks at the confidence alone.
gate_confidence_only(confidence, min_confidence, risk_level, max_risk_level) ==
    confidence >= min_confidence

\* The auto-apply gate of the tick.
auto_apply_gate(confidence, min_confidence, risk_level, max_risk_level) ==
    LET max_risk == Get(risk_levels, max_risk_level, 2)
        current_risk == Get(risk_levels, risk_level, 4)
    IN  confidence >= min_confidence /\ current_risk <= max_risk

\* kopf stores a handler's return value under status.<handler name>.
create_optimization ==
    /\ life = "new"
    /\ life' = "active"
    /\ status' = [status EXCEPT !.results =
                    Put(@, "create_optimization", [phase |-> "Analyzing"])]
    /\ last' = [Idle EXCEPT !.op = "create"]
    /\ UNCHANGED <<decl, workload, redis, configmaps, origin, steps, request, recommendations>>

\* An update of the declaration's autoApply or dryRun.
update_optimization ==
    /\ life = "active"
    /\ steps < MaxSteps
    /\ \E k \in {"autoApply", "dryRun"}, v \in BOOLEAN :
          /\ Get(decl.spec, k, ~v) # v
          /\ decl' = [decl EXCEPT !.spec = Put(@, k, v)]
    /\ status' = [status EXCEPT !.results =
                    Put(@, "update_optimization", [phase |-> "Ready"])]
    /\ last' = [Idle EXCEPT !.op = "update"]
    /\ steps' = steps + 1
    /\ UNCHANGED <<life, workload, redis, configmaps, origin, request, recommendations>>

\* The status written by a tick that found nothing.
tick_none(st, w, rds, cms) ==
    [status |-> [st EXCEPT !.phase = "Ready",
                           !.message = <<"No optimization opportunities found">>],
     workload |-> w, redis |-> rds, configmaps |-> cms,
     last |-> [Idle EXCEPT !.op = "tick"]]

seen(rec) ==
    [Idle EXCEPT !.op = "tick", !.found = TRUE,
                 !.rec = [monthly_savings |-> rec.monthly_savings,
                          confidence_score |-> rec.confidence_score,
                          level |-> rec.level]]

\* A tick that counts an apply whether or not it succeeded.
tick_applied_counting_failures(st, rec, a) ==
    [status |-> [st EXCEPT !.phase = IF a.ok THEN "Applied" ELSE "Failed",
                           !.message = <<"Optimization applied successfully">>,
                           !.appliedOptimizations = Get(st, "appliedOptimizations", 0) + 1,
                           !.totalSavings = Get(st, "totalSavings", 0) + rec.monthly_savings],
     workload |-> a.workload, redis |-> a.redis, configmaps |-> a.configmaps,
     last |-> [seen(rec) EXCEPT !.attempted = TRUE, !.success = a.ok,
                                !.stored = a.stored, !.patched = a.patched,
                                !.config = rec.recommended_config]]

\* The branch of the tick after apply_optimization returned a.
tick_applied(st, rec, a) ==
    [status |->
        IF a.ok
        THEN [st EXCEPT !.phase = "Applied",
                        !.message = <<"Optimization applied successfully">>,
                        !.appliedOptimizations = Get(st, "appliedOptimizations", 0) + 1,
                        !.totalSavings = Get(st, "totalSavings", 0) + rec.monthly_savings]
        ELSE [st EXCEPT !.phase = "Failed",
                        !.message = <<"Failed to apply optimization">>],
     workload |-> a.workload, redis |-> a.redis, configmaps |-> a.configmaps,
     last |-> [seen(rec) EXCEPT !.attempted = TRUE, !.success = a.ok,
                                !.stored = a.stored, !.patched = a.patched,
                                !.config = rec.recommended_config]]

\* The branches of the tick that do not call apply_optimization.
tick_skipped(st, w, rds, cms, rec, message) ==
    [status |-> [st EXCEPT !.phase = "Ready", !.message = message],
     workload |-> w, redis |-> rds, configmaps |-> cms, last |-> seen(rec)]

\* The tick once a recommendation has been found.
tick_found(d, st, w, rds, cms, rec, env) ==
    IF Get(d.spec, "autoApply", FALSE) /\ ~Get(d.spec, "dryRun", TRUE)
    THEN IF auto_apply_gate(rec.confidence_score, Get(d.spec, "minConfidence", 70),
                            rec.level, Get(d.spec, "maxRiskLevel", "MEDIUM"))
         THEN tick_applied(st, rec,
                  apply_optimization(live(w, target_namespace(d), target_name(d)),
                                     rds, cms, target_name(d), target_kind(d),
                                     target_namespace(d), rec, FALSE, env))
         ELSE tick_skipped(st, w, rds, cms, rec,
                  <<"Optimization found but not applied", rec.confidence_score, rec.level>>)
    ELSE tick_skipped(st, w, rds, cms, rec,
             IF Get(d.spec, "dryRun", TRUE)
             THEN <<"Dry-run mode: Would save", rec.monthly_savings>>
             ELSE <<"Auto-apply disabled">>)

tick_decide(d, st, w, rds, cms, recommendation, env) ==
    IF ~recommendation.found
    THEN tick_none(st, w, rds, cms)
    ELSE tick_found(d, st, w, rds, cms, recommendation.rec, env)

\* The status and cluster after one periodic_optimization_check, for the
\* API answer `response` and the call outcomes `env`.
tick_outcome(d, st, w, rds, cms, response, env) ==
    tick_decide(d, st, w, rds, cms,
                analyze_workload(live(w, target_namespace(d), target_name(d)),
                                 target_kind(d), env.read, response),
                env)

CalmEnv(read) ==
    [read |-> read, patch |-> "ok", redis_write |-> "ok", cm_write |-> "ok",
     redis_read |-> "ok", cm_read |-> "ok"]

\* Only a tick that attempts an apply calls redis and the patch API: the
\* outcomes of those calls are drawn for such ticks alone.
tick_envs(d, w, response, read) ==
    IF /\ Get(d.spec, "autoApply", FALSE) /\ ~Get(d.spec, "dryRun", TRUE)
       /\ analyze_workload(live(w, target_namespace(d), target_name(d)),
                           target_kind(d), read, response).found
    THEN {e \in ApplyEnvs : e.read = read}
    ELSE {CalmEnv(read)}

\* last records the outcome of the tick's read of the workload and whether
\* the recommendation API answers 200.
tick_step(out, read, response) ==
    /\ status' = out.status
    /\ workload' = out.workload
    /\ redis' = out.redis
    /\ configmaps' = out.configmaps
    /\ last' = [out.last EXCEPT !.api_read = read,
                                !.api_answer = IF response.ok THEN "ok" ELSE "error"]
    /\ origin' = IF out.last.stored THEN workload ELSE origin

periodic_optimization_check ==
    /\ life = "active"
    /\ steps < MaxSteps
    /\ \E response \in ApiResponses, read \in {"ok", "error"} :
        \E env \in tick_envs(decl, workload, response, read) :
          tick_step(tick_outcome(decl, status, workload, redis, configmaps, response, env),
                    read, response)
    /\ steps' = steps + 1
    /\ UNCHANGED <<decl, life, request, recommendations>>

delete_result(r) ==
    [workload |-> r.workload,
     last |-> [Idle EXCEPT !.op = "delete", !.rollbacks = 1, !.rollback_ok = r.ok,
                           !.patched = r.patches > 0, !.patches = r.patches,
                           !.validated = r.validated]]

\* A delete handler that rolls back whatever the phase is.
delete_whatever_phase(d, st, w, rds, cms, has_redis, env) ==
    IF Get(d.spec, "rollbackOnFailure", TRUE)
    THEN delete_result(
             execute_rollback(live(w, target_namespace(d), target_name(d)),
                              rds, cms, target_name(d), target_kind(d),
                              target_namespace(d), has_redis, env))
    ELSE [workload |-> w, last |-> [Idle EXCEPT !.op = "delete"]]

\* delete_optimization: roll back when the phase is Applied and
\* rollbackOnFailure (default True); everything inside is caught.
delete_outcome(d, st, w, rds, cms, has_redis, env) ==
    IF Get(st, "phase", "None") = "Applied" /\ Get(d.spec, "rollbackOnFailure", TRUE)
    THEN delete_result(
             execute_rollback(live(w, target_namespace(d), target_name(d)),
                              rds, cms, target_name(d), target_kind(d),
                              target_namespace(d), has_redis, env))
    ELSE [workload |-> w, last |-> [Idle EXCEPT !.op = "delete"]]

\* except Exception: an exception inside the handler's body is logged and
\* not re-raised.
delete_reraises(raised_inside) == FALSE

delete_step(out, raised_inside) ==
    /\ workload' = out.workload
    /\ last' = [out.last EXCEPT !.raised = delete_reraises(raised_inside)]

\* has_redis: whether the operator-wide RollbackHandler, built at startup,
\* got a redis client. event: whether posting the deletion event throws.
delete_optimization ==
    /\ life = "active"
    /\ \E env \in RollbackEnvs, has_redis \in BOOLEAN, event \in {"ok", "raise"} :
          delete_step(delete_outcome(decl, status, workload, redis, configmaps,
                                     has_redis, env),
                      event = "raise")
    /\ life' = "deleted"
    /\ UNCHANGED <<decl, status, redis, configmaps, origin, steps, request, recommendations>>

Init ==
    /\ decl \in {[metadata |-> [namespace |-> WorkloadNamespace], spec |-> s] :
                    s \in ControllerSpecs}
    /\ life = "new"
    /\ status = InitialStatus
    /\ workload \in InitialWorkloads
    /\ redis = EmptyDict
    /\ configmaps = EmptyDict
    /\ last = Idle
    /\ origin = NoWorkload
    /\ steps = 0
    /\ request = NoRequest
    /\ recommendations = <<>>

Next ==
    \/ create_optimization
    \/ update_optimization
    \/ periodic_optimization_check
    \/ delete_optimization

Spec == Init /\ [][Next]_vars

(***************************************************************************)
(* apply_optimization called with dry_run=True, next to the life cycle     *)
(***************************************************************************)
DryRunRecommendation ==
    [monthly_savings |-> 10, confidence_score |-> 70, level |-> "low",
     recommended_config |-> RightSizeConfig]

apply_dry_run ==
    /\ life = "active"
    /\ \E read \in {"ok", "error"} :
        LET a == apply_optimization(live(workload, target_namespace(decl), target_name(decl)),
                                    redis, configmaps, target_name(decl), target_kind(decl),
                                    target_namespace(decl), DryRunRecommendation, TRUE,
                                    CalmEnv(read))
        IN  /\ workload' = a.workload
            /\ redis' = a.redis
            /\ configmaps' = a.configmaps
            /\ last' = [Idle EXCEPT !.op = "apply_dry_run", !.attempted = TRUE,
                                    !.success = a.ok, !.stored = a.stored,
                                    !.patched = a.patched, !.api_read = read]
    /\ UNCHANGED <<decl, life, status, origin, steps, request, recommendations>>

NextDryRun == Next \/ apply_dry_run

SpecDryRun == Init /\ [][NextDryRun]_vars

(***************************************************************************)
(* The handlers called directly: store, apply, roll back                   *)
(***************************************************************************)
MaxCalls == 3

SmallContainer ==
    [requests |-> [cpu |-> "250m", memory |-> "256Mi"],
     limits   |-> [cpu |-> "250m", memory |-> "256Mi"]]

RequestsOnlyContainer == [requests |-> [cpu |-> "500m"], limits |-> EmptyDict]

HandlerWorkloads ==
    {NoWorkload}
    \cup {[exists |-> TRUE, replicas |-> n, containers |-> cs, annotations |-> {}] :
            n \in {1, 3},
            cs \in {<<FullContainer>>, <<BareContainer>>, <<RequestsOnlyContainer>>,
                    <<FullContainer, SmallContainer>>}}

HandlerRecommendations ==
    {[monthly_savings |-> 10, confidence_score |-> 70, level |-> "low",
      recommended_config |-> c] : c \in RecommendedConfigs}

InitHandlers ==
    /\ decl \in {[metadata |-> [namespace |-> WorkloadNamespace],
                   spec |-> [targetWorkload |-> [name |-> WorkloadName, kind |-> k]]] :
                    k \in SupportedKinds}
    /\ life = "active"
    /\ status = InitialStatus
    /\ workload \in HandlerWorkloads
    /\ redis = EmptyDict
    /\ configmaps = EmptyDict
    /\ last = Idle
    /\ origin = NoWorkload
    /\ steps = 0
    /\ request = NoRequest
    /\ recommendations = <<>>

\* RollbackHandler.store_original_state on the workload as it is.
handler_store ==
    /\ steps < MaxCalls
    /\ workload.exists
    /\ \E redis_write \in {"none", "ok", "raise"}, cm_write \in {"ok", "error"} :
        LET st == store_original_state(redis, configmaps, target_name(decl),
                                       target_kind(decl), target_namespace(decl),
                                       workload, redis_write, cm_write)
            stored == st.ok /\ (redis_write = "ok" \/ cm_write = "ok")
        IN  /\ redis' = st.redis
            /\ configmaps' = st.configmaps
            /\ last' = [Idle EXCEPT !.op = "store", !.success = st.ok, !.stored = stored]
            /\ origin' = IF stored THEN workload ELSE origin
    /\ steps' = steps + 1
    /\ UNCHANGED <<decl, life, status, workload, request, recommendations>>

\* OptimizationHandler.apply_optimization with dry_run=False.
handler_apply ==
    /\ steps < MaxCalls
    /\ \E rec \in HandlerRecommendations, env \in ApplyEnvs :
        LET a == apply_optimization(live(workload, target_namespace(decl), target_name(decl)),
                                    redis, configmaps, target_name(decl), target_kind(decl),
                                    target_namespace(decl), rec, FALSE, env)
        IN  /\ workload' = a.workload
            /\ redis' = a.redis
            /\ configmaps' = a.configmaps
            /\ last' = [Idle EXCEPT !.op = "apply", !.attempted = TRUE, !.success = a.ok,
                                    !.stored = a.stored, !.patched = a.patched,
                                    !.api_read = env.read]
            /\ origin' = IF a.stored THEN workload ELSE origin
    /\ steps' = steps + 1
    /\ UNCHANGED <<decl, life, status, request, recommendations>>

\* RollbackHandler.execute_rollback.
handler_rollback ==
    /\ steps < MaxCalls
    /\ \E env \in RollbackEnvs, has_redis \in BOOLEAN :
        LET r == execute_rollback(live(workload, target_namespace(decl), target_name(decl)),
                                  redis, configmaps, target_name(decl), target_kind(decl),
                                  target_namespace(decl), has_redis, env)
        IN  /\ workload' = r.workload
            /\ last' = [Idle EXCEPT !.op = "rollback", !.rollbacks = 1,
                                    !.rollback_ok = r.ok, !.patched = r.patches > 0,
                                    !.patches = r.patches, !.validated = r.validated]
    /\ steps' = steps + 1
    /\ UNCHANGED <<decl, life, status, redis, configmaps, origin, request, recommendations>>

NextHandlers == handler_store \/ handler_apply \/ handler_rollback

SpecHandlers == InitHandlers /\ [][NextHandlers]_vars

(***************************************************************************)
(* The snapshot store on its own: stores and loads for several workloads   *)
(***************************************************************************)
\* The workloads snapshots are stored for.
SnapshotKeys ==
    {[namespace |-> "default", kind |-> "Deployment", name |-> "web"],
     [namespace |-> "default", kind |-> "StatefulSet", name |-> "web"],
     [namespace |-> "prod", kind |-> "Deployment", name |-> "web"]}

InitSnapshots ==
    /\ redis = EmptyDict
    /\ configmaps = EmptyDict
    /\ last = [op |-> "none"]
    /\ steps = 0
    /\ decl = [metadata |-> EmptyDict, spec |-> EmptyDict]
    /\ life = "store"
    /\ status = EmptyDict
    /\ workload = NoWorkload
    /\ origin = NoWorkload
    /\ request = NoRequest
    /\ recommendations = <<>>

\* store_original_state for the workload k as it is read from the cluster.
snapshot_store ==
    /\ steps < MaxCalls
    /\ \E k \in SnapshotKeys, n \in {1, 3},
          redis_write \in {"none", "ok", "raise"}, cm_write \in {"ok", "error"} :
        LET w == [exists |-> TRUE, replicas |-> n, containers |-> <<FullContainer>>,
                  annotations |-> {}]
            st == store_original_state(redis, configmaps, k.name, k.kind, k.namespace,
                                       w, redis_write, cm_write)
        IN  /\ redis' = st.redis
            /\ configmaps' = st.configmaps
            /\ last' = [op |-> "store", key |-> k, ok |-> st.ok,
                        state |-> snapshot_state(k.name, k.kind, k.namespace, w)]
    /\ steps' = steps + 1
    /\ UNCHANGED <<decl, life, status, workload, origin, request, recommendations>>

\* _get_original_state for the workload k.
snapshot_load ==
    /\ \E k \in SnapshotKeys, has_redis \in BOOLEAN,
          redis_read \in {"ok", "raise"}, cm_read \in {"ok", "error", "raise"} :
        last' = [op |-> "load", key |-> k, has_redis |-> has_redis,
                 redis_read |-> redis_read, cm_read |-> cm_read,
                 result |-> get_original_state(redis, configmaps, k.name, k.kind,
                                               k.namespace, has_redis, redis_read,
                                               cm_read)]
    /\ UNCHANGED <<decl, life, status, workload, redis, configmaps, origin, steps,
                   request, recommendations>>

\* The 7 days of a fast-tier entry (setex) are over.
snapshot_expire ==
    /\ \E rk \in DOMAIN redis :
          redis' = [x \in DOMAIN redis \ {rk} |-> redis[x]]
    /\ last' = [op |-> "expire"]
    /\ UNCHANGED <<decl, life, status, workload, configmaps, origin, steps, request,
                   recommendations>>

NextSnapshots == snapshot_store \/ snapshot_load \/ snapshot_expire

SpecSnapshots == InitSnapshots /\ [][NextSnapshots]_vars

(***************************************************************************)
(* The admission webhook (admission_webhook.py)                            *)
(***************************************************************************)
allowed_kinds == {"Deployment", "StatefulSet", "DaemonSet"}

allowed_types == {"CPU", "MEMORY", "REPLICAS", "ALL", "SPOT_INSTANCES", "SCHEDULED_SCALING"}

allowed_risk_levels == {"LOW", "MEDIUM", "HIGH", "CRITICAL"}

protected_namespaces == {"kube-system", "kube-public", "kube-node-lease"}

protected_workloads ==
    {"kube-dns", "coredns", "kube-proxy", "metrics-server", "kubernetes-dashboard"}

\* Field checks without the autoApply / dryRun exclusion and without the
\* autoApply / maxRiskLevel rule.
validate_fields_no_exclusion(kind, type, mcp, conf, dry, auto, risk) ==
    IF mcp < 1 \/ mcp > 100
    THEN [ok |-> FALSE, message |-> "maxChangePercent must be between 1 and 100"]
    ELSE IF conf < 0 \/ conf > 100
    THEN [ok |-> FALSE, message |-> "minConfidence must be between 0.0 and 1.0"]
    ELSE IF risk \notin {"LOW", "MEDIUM", "HIGH", "CRITICAL"}
    THEN [ok |-> FALSE, message |-> "maxRiskLevel must be one of the allowed levels"]
    ELSE [ok |-> TRUE, message |-> "Validation passed"]

\* The checks after the required fields; mcp, conf are the numbers read
\* with their defaults (50, 0.7), confidences in hundredths.
validate_fields(kind, type, mcp, conf, dry, auto, risk) ==
    IF mcp < 1 \/ mcp > 100
    THEN [ok |-> FALSE, message |-> "maxChangePercent must be between 1 and 100"]
    ELSE IF conf < 0 \/ conf > 100
    THEN [ok |-> FALSE, message |-> "minConfidence must be between 0.0 and 1.0"]
    ELSE IF auto /\ dry
    THEN [ok |-> FALSE, message |-> "Cannot enable both autoApply and dryRun"]
    ELSE IF risk \notin allowed_risk_levels
    THEN [ok |-> FALSE, message |-> "maxRiskLevel must be one of the allowed levels"]
    ELSE IF auto /\ risk \in {"HIGH", "CRITICAL"}
    THEN [ok |-> FALSE, message |-> "Cannot enable autoApply with maxRiskLevel HIGH or CRITICAL"]
    ELSE IF kind = "StatefulSet" /\ type = "REPLICAS" /\ auto
    THEN [ok |-> FALSE, message |-> "Cannot auto-apply replica optimization to StatefulSet"]
    ELSE IF kind = "DaemonSet" /\ type \in {"REPLICAS", "ALL"}
    THEN [ok |-> FALSE, message |-> "Cannot optimize replicas for DaemonSet"]
    ELSE IF type = "SPOT_INSTANCES" /\ auto /\ conf < 80
    THEN [ok |-> FALSE, message |-> "Spot instance optimization requires minConfidence >= 0.8"]
    ELSE [ok |-> TRUE, message |-> "Validation passed"]

validate_cost_optimization(obj) ==
    IF Get(Get(obj.spec, "targetWorkload", EmptyDict), "name", "") = ""
    THEN [ok |-> FALSE, message |-> "targetWorkload.name is required"]
    ELSE IF Get(Get(obj.spec, "targetWorkload", EmptyDict), "kind", "") = ""
    THEN [ok |-> FALSE, message |-> "targetWorkload.kind is required"]
    ELSE IF obj.spec.targetWorkload.kind \notin allowed_kinds
    THEN [ok |-> FALSE, message |-> "targetWorkload.kind must be one of the allowed kinds"]
    ELSE IF Get(obj.spec, "optimizationType", "") = ""
    THEN [ok |-> FALSE, message |-> "optimizationType is required"]
    ELSE IF obj.spec.optimizationType \notin allowed_types
    THEN [ok |-> FALSE, message |-> "optimizationType must be one of the allowed types"]
    ELSE validate_fields(obj.spec.targetWorkload.kind, obj.spec.optimizationType,
                         Get(obj.spec, "maxChangePercent", 50),
                         Get(obj.spec, "minConfidence", 70),
                         Get(obj.spec, "dryRun", TRUE), Get(obj.spec, "autoApply", FALSE),
                         Get(obj.spec, "maxRiskLevel", "MEDIUM"))

prevent_dangerous_optimization(obj) ==
    IF Get(obj.metadata, "namespace", "default") \in protected_namespaces
    THEN [ok |-> FALSE, message |-> "Cannot optimize workloads in a system namespace"]
    ELSE IF Get(Get(obj.spec, "targetWorkload", EmptyDict), "name", "") \in protected_workloads
    THEN [ok |-> FALSE, message |-> "Cannot optimize protected workload"]
    ELSE IF Get(Get(obj.metadata, "labels", EmptyDict), "component", "") = "controller"
    THEN [ok |-> FALSE, message |-> "Cannot optimize Kubernetes controller components"]
    ELSE IF Get(obj.spec, "maxChangePercent", 50) > 80 /\ Get(obj.spec, "autoApply", FALSE)
    THEN [ok |-> FALSE, message |-> "Cannot auto-apply optimizations with maxChangePercent > 80%"]
    ELSE [ok |-> TRUE, message |-> "Safety checks passed"]

\* The response of POST /validate, from the two checks' results.
validate_response(valid, safe) ==
    IF ~valid.ok THEN [allowed |-> FALSE, code |-> 400, message |-> valid.message]
    ELSE IF ~safe.ok THEN [allowed |-> FALSE, code |-> 403, message |-> safe.message]
    ELSE [allowed |-> TRUE, code |-> 200, message |-> ""]

AdmissionTargets ==
    {n @@ k @@ ns : n \in Opt("name", {WorkloadName, "coredns"}),
                    k \in Opt("kind", {"Deployment", "StatefulSet", "DaemonSet", "Job"}),
                    ns \in Opt("namespace", {"kube-system"})}

AdmissionSpecs ==
    {[targetWorkload |-> t] @@ ty @@ mcp @@ conf @@ dry @@ auto @@ risk :
        t \in AdmissionTargets,
        ty \in Opt("optimizationType", {"CPU", "REPLICAS", "SPOT_INSTANCES"}),
        mcp \in Opt("maxChangePercent", {0, 90}),
        conf \in Opt("minConfidence", {90}),
        dry \in Opt("dryRun", BOOLEAN),
        auto \in Opt("autoApply", BOOLEAN),
        risk \in Opt("maxRiskLevel", {"LOW", "HIGH", "CRITICAL", "low"})}

AdmissionObjects ==
    {[metadata |-> ns @@ lb, spec |-> sp] :
        ns \in Opt("namespace", {"kube-system"}),
        lb \in Opt("labels", {[component |-> "controller"]}),
        sp \in AdmissionSpecs}

InitAdmission ==
    /\ decl \in AdmissionObjects
    /\ life = "submitted"
    /\ status = EmptyDict
    /\ workload = NoWorkload
    /\ redis = EmptyDict
    /\ configmaps = EmptyDict
    /\ last = Idle
    /\ origin = NoWorkload
    /\ steps = 0
    /\ request = NoRequest
    /\ recommendations = <<>>

\* POST /mutate: a default status for an object without one, the labels
\* object and the managed-by label. Always allowed.
mutate ==
    /\ life = "submitted"
    /\ life' = "mutated"
    /\ status' = IF DOMAIN status = {} THEN InitialStatus ELSE status
    /\ decl' = [decl EXCEPT !.metadata =
                    Put(@, "labels", Put(Get(@, "labels", EmptyDict),
                                         "managed-by", "cost-optimizer-operator"))]
    /\ last' = [Idle EXCEPT !.op = "mutate", !.success = TRUE,
                            !.response = [allowed |-> TRUE, code |-> 200, message |-> ""]]
    /\ UNCHANGED <<workload, redis, configmaps, origin, steps, request, recommendations>>

\* POST /validate: the object is admitted or rejected.
validate ==
    /\ life = "mutated"
    /\ last' = [Idle EXCEPT !.op = "validate",
                            !.response = validate_response(
                                             validate_cost_optimization(decl),
                                             prevent_dangerous_optimization(decl)),
                            !.success = validate_cost_optimization(decl).ok]
    /\ life' = IF last'.response.allowed THEN "admitted" ELSE "rejected"
    /\ UNCHANGED <<decl, status, workload, redis, configmaps, origin, steps, request, recommendations>>

NextAdmission == mutate \/ validate

SpecAdmission == InitAdmission /\ [][NextAdmission]_vars

(***************************************************************************)
(* The optimizer API: MLEngine (ml_engine.py)                              *)
(*                                                                         *)
(* cpu is counted in millicores and memory in MiB. A cpu quantity string   *)
(* is <<n, "m">> or <<tenths, "cores">>, a memory quantity string is       *)
(* <<n, "Ki" | "Mi" | "Gi">>. Utilizations are counted in tenths of a       *)
(* percent (59.5% is 595, the default target utilization 70.0 is 700);     *)
(* confidences and risk scores in hundredths. The floating-point           *)
(* arithmetic of the code is modelled by exact integer arithmetic.         *)
(***************************************************************************)
Abs(x) == IF x < 0 THEN -x ELSE x

Max2(a, b) == IF a >= b THEN a ELSE b

Min2(a, b) == IF a <= b THEN a ELSE b

\* math.ceil(a / b) for a >= 0, b > 0
CeilDiv(a, b) == (a + b - 1) \div b

\* round(a / b), ties to the even neighbour, for a >= 0, b > 0
RoundDiv(a, b) ==
    LET q == a \div b
        r == a % b
    IN  IF 2 * r < b THEN q
        ELSE IF 2 * r > b THEN q + 1
        ELSE IF q % 2 = 0 THEN q ELSE q + 1

format_cpu(millis) ==
    IF millis < 1000 THEN <<millis, "m">> ELSE <<RoundDiv(millis, 100), "cores">>

format_memory(mib) ==
    IF mib < 1 THEN <<mib * 1024, "Ki">>
    ELSE IF mib < 1024 THEN <<mib, "Mi">>
    ELSE <<mib \div 1024, "Gi">>

parse_cpu(q) == IF q[2] = "m" THEN q[1] ELSE q[1] * 100

parse_memory(q) ==
    IF q[2] = "Ki" THEN q[1] \div 1024
    ELSE IF q[2] = "Mi" THEN q[1]
    ELSE q[1] * 1024

\* p95 * safety_margin (1.15); limits at 1.5 and 1.3 times the request.
right_size_resources(metrics) ==
    [cpu_request    |-> format_cpu((metrics.cpu_usage.p95 * 115) \div 100),
     memory_request |-> format_memory((metrics.memory_usage.p95 * 115) \div 100),
     cpu_limit      |-> format_cpu((metrics.cpu_usage.p95 * 115 * 15) \div 1000),
     memory_limit   |-> format_memory((metrics.memory_usage.p95 * 115 * 13) \div 1000)]

\* |p95 - p50| / avg as a fraction; 0 when avg is 0 or negative.
calculate_variance(stats) ==
    IF stats.avg <= 0 THEN [num |-> 0, den |-> 1]
    ELSE [num |-> Abs(stats.p95 - stats.p50), den |-> stats.avg]

\* v > n / 100 and v < n / 100
variance_above(v, n) == v.num * 100 > n * v.den

variance_below(v, n) == v.num * 100 < n * v.den

pattern_of(cpu_variance, memory_variance) ==
    IF variance_above(cpu_variance, 40) \/ variance_above(memory_variance, 30)
    THEN "burst"
    ELSE IF variance_below(cpu_variance, 15) /\ variance_below(memory_variance, 15)
    THEN "steady"
    ELSE "business_hours"

detect_patterns(metrics) ==
    [pattern |-> pattern_of(calculate_variance(metrics.cpu_usage),
                            calculate_variance(metrics.memory_usage)),
     recommended_scaling |->
        IF metrics.cpu_utilization_pct < 300 /\ metrics.memory_utilization_pct < 300
        THEN "downsize"
        ELSE CASE pattern_of(calculate_variance(metrics.cpu_usage),
                             calculate_variance(metrics.memory_usage)) = "burst"
                    -> "horizontal"
               [] pattern_of(calculate_variance(metrics.cpu_usage),
                             calculate_variance(metrics.memory_usage)) = "steady"
                    -> "none"
               [] OTHER -> "scheduled"]

\* (cpu_variance + memory_variance) / 2 < n / 100
avg_variance_below(v1, v2, n) ==
    (v1.num * v2.den + v2.num * v1.den) * 100 < 2 * n * v1.den * v2.den

\* The sum of the confidence terms without the cap at 1.0.
confidence_uncapped(metrics, optimization_type) ==
    50
    + (IF metrics.sample_count > 1000 THEN 20
       ELSE IF metrics.sample_count > 500 THEN 15
       ELSE IF metrics.sample_count > 100 THEN 10 ELSE 0)
    + (IF avg_variance_below(calculate_variance(metrics.cpu_usage),
                             calculate_variance(metrics.memory_usage), 15) THEN 20
       ELSE IF avg_variance_below(calculate_variance(metrics.cpu_usage),
                                  calculate_variance(metrics.memory_usage), 30) THEN 10
       ELSE 0)
    + (IF metrics.time_range_hours >= 168 THEN 10
       ELSE IF metrics.time_range_hours >= 72 THEN 5 ELSE 0)
    + (IF optimization_type = "right_sizing"
          /\ (metrics.cpu_utilization_pct < 200 \/ metrics.cpu_utilization_pct > 900)
       THEN 5 ELSE 0)

calculate_confidence(metrics, optimization_type) ==
    Min2(100,
         50
         + (IF metrics.sample_count > 1000 THEN 20
            ELSE IF metrics.sample_count > 500 THEN 15
            ELSE IF metrics.sample_count > 100 THEN 10 ELSE 0)
         + (IF avg_variance_below(calculate_variance(metrics.cpu_usage),
                                  calculate_variance(metrics.memory_usage), 15) THEN 20
            ELSE IF avg_variance_below(calculate_variance(metrics.cpu_usage),
                                       calculate_variance(metrics.memory_usage), 30) THEN 10
            ELSE 0)
         + (IF metrics.time_range_hours >= 168 THEN 10
            ELSE IF metrics.time_range_hours >= 72 THEN 5 ELSE 0)
         + (IF optimization_type = "right_sizing"
               /\ (metrics.cpu_utilization_pct < 200 \/ metrics.cpu_utilization_pct > 900)
            THEN 5 ELSE 0))

\* A proposal that truncates where the code rounds.
replicas_for_truncating(current_replicas, max_utilization, target_utilization) ==
    IF max_utilization < 300
    THEN IF max_utilization < 150
         THEN Max2(1, CeilDiv(current_replicas, 2))
         ELSE Max2(1, current_replicas - 1)
    ELSE IF max_utilization > 850
    THEN CeilDiv(current_replicas * max_utilization, target_utilization)
    ELSE Max2(1, (current_replicas * max_utilization) \div target_utilization)

\* The replica count before the StatefulSet and 15% rules.
replicas_for(current_replicas, max_utilization, target_utilization) ==
    IF max_utilization < 300
    THEN IF max_utilization < 150
         THEN Max2(1, CeilDiv(current_replicas, 2))
         ELSE Max2(1, current_replicas - 1)
    ELSE IF max_utilization > 850
    THEN CeilDiv(current_replicas * max_utilization, target_utilization)
    ELSE Max2(1, RoundDiv(current_replicas * max_utilization, target_utilization))

\* The StatefulSet rule without the 15% rule.
settle_without_band(kind, current_replicas, recommended) ==
    IF kind = "StatefulSet" /\ recommended < current_replicas
    THEN current_replicas
    ELSE recommended

\* The 15% rule without the StatefulSet rule.
settle_without_guard(kind, current_replicas, recommended) ==
    IF Abs(recommended - current_replicas) * 100 < 15 * current_replicas
    THEN current_replicas
    ELSE recommended

\* The StatefulSet rule, then the 15% rule.
settle_replicas(kind, current_replicas, recommended) ==
    IF kind = "StatefulSet" /\ recommended < current_replicas
    THEN current_replicas
    ELSE IF Abs(recommended - current_replicas) * 100 < 15 * current_replicas
    THEN current_replicas
    ELSE recommended

\* target_utilization: 70.0 unless the caller passes another.
optimize_replicas(w, metrics, target_utilization) ==
    settle_replicas(w.kind, w.replicas,
                    replicas_for(w.replicas,
                                 Max2(metrics.cpu_utilization_pct,
                                      metrics.memory_utilization_pct),
                                 target_utilization))

detect_unused_resources(metrics, threshold_pct) ==
    metrics.cpu_utilization_pct < threshold_pct
        /\ metrics.memory_utilization_pct < threshold_pct

recommend_spot_instances(w, metrics) ==
    IF w.kind \in {"StatefulSet", "DaemonSet"} \/ w.replicas = 1
    THEN [suitable |-> FALSE, confidence |-> 0]
    ELSE [suitable |-> TRUE,
          confidence |->
             70 - (IF detect_patterns(metrics).pattern = "burst" THEN 20 ELSE 0)
                - (IF metrics.cpu_utilization_pct > 800
                      \/ metrics.memory_utilization_pct > 800 THEN 15 ELSE 0)]

\* off_peak_scale_down is 0.5.
detect_scheduled_scaling_opportunity(metrics) ==
    IF detect_patterns(metrics).pattern = "business_hours"
    THEN [suitable |-> TRUE, strategy |-> "business_hours", confidence |-> 75]
    ELSE [suitable |-> FALSE, strategy |-> "none", confidence |-> 0]

\* sorted(workloads, key=cpu_request + memory_request, reverse=True): the
\* largest first, equal ones in their order in the list.
RECURSIVE sort_by_size(_)
sort_by_size(ws) ==
    IF Len(ws) <= 1 THEN ws
    ELSE LET size(w) == Get(w, "cpu_request", 0) + Get(w, "memory_request", 0)
             top == CHOOSE i \in 1..Len(ws) :
                      /\ \A j \in 1..Len(ws) : size(ws[j]) <= size(ws[i])
                      /\ \A j \in 1..(i - 1) : size(ws[j]) < size(ws[i])
         IN  <<ws[top]>> \o sort_by_size(
                 [k \in 1..(Len(ws) - 1) |-> IF k < top THEN ws[k] ELSE ws[k + 1]])

\* The loop of bin_packing over the sorted workloads left in ws: the
\* workload goes into the current node when both sums stay within 85% of
\* the capacity; else the current node is closed, whatever it holds, and a
\* new one is opened with the workload in it.
RECURSIVE pack(_, _, _, _)
pack(ws, nodes, current_node, node_capacity) ==
    IF Len(ws) = 0
    THEN IF Len(current_node.workloads) > 0 THEN Append(nodes, current_node) ELSE nodes
    ELSE LET cpu_needed == Get(ws[1], "cpu_request", 0)
             memory_needed == Get(ws[1], "memory_request", 0)
         IN  IF /\ (current_node.cpu_used + cpu_needed) * 100
                      <= current_node.cpu_capacity * 85
                /\ (current_node.memory_used + memory_needed) * 100
                      <= current_node.memory_capacity * 85
             THEN pack(Tail(ws), nodes,
                       [current_node EXCEPT !.cpu_used = @ + cpu_needed,
                                            !.memory_used = @ + memory_needed,
                                            !.workloads = Append(@, ws[1])],
                       node_capacity)
             ELSE pack(Tail(ws), Append(nodes, current_node),
                       [cpu_used |-> cpu_needed, memory_used |-> memory_needed,
                        cpu_capacity |-> node_capacity.cpu,
                        memory_capacity |-> node_capacity.memory,
                        workloads |-> <<ws[1]>>],
                       node_capacity)

\* bin_packing; cpu in cores and memory in GiB. The two utilization totals
\* of the result are left out.
bin_packing(workloads, node_capacity) ==
    LET nodes == pack(sort_by_size(workloads), <<>>,
                      [cpu_used |-> 0, memory_used |-> 0,
                       cpu_capacity |-> node_capacity.cpu,
                       memory_capacity |-> node_capacity.memory,
                       workloads |-> <<>>],
                      node_capacity)
    IN  [required_nodes |-> Len(nodes), nodes |-> nodes,
         savings_potential |-> Max2(0, Len(workloads) - Len(nodes))]

(***************************************************************************)
(* The optimizer API: CostCalculator (cost_calculator.py)                  *)
(*                                                                         *)
(* Money is counted in a unit in which the fallback estimate of a month is *)
(* the integer (millicores * 1024 + MiB * 125) * replicas; the answers of  *)
(* the pricing and spot collaborators are amounts per replica and month    *)
(* in that unit.                                                           *)
(***************************************************************************)
\* (cpu_cores * 0.04 + memory_gb * 0.005) * replicas * 730
fallback_monthly(cpu_q, memory_q, replicas) ==
    (parse_cpu(cpu_q) * 1024 + parse_memory(memory_q) * 125) * replicas

fallback_cost_estimate(w) ==
    fallback_monthly(w.current_resources.cpu_request,
                     w.current_resources.memory_request, w.replicas)

fallback_optimized_cost_estimate(w, config) ==
    fallback_monthly(Get(config, "cpu_request", w.current_resources.cpu_request),
                     Get(config, "memory_request", w.current_resources.memory_request),
                     Get(config, "replicas", w.replicas))

\* CostEstimate and CostBreakdown accept only amounts >= 0 (Field(ge=0)); a
\* constructor call with another amount raises a ValidationError.
cost_estimate_valid(monthly) == monthly >= 0

\* An answer to POST /pricing that passes the status check, parses, and has
\* every field the code reads, but with no regard to the amounts.
priced_unvalidated(pricing, replicas) == pricing.outcome = "ok"

\* Whether the try block completes. pricing is the outcome of POST
\* /pricing: "ok" with the monthly_cost of the payload, "timeout" (the
\* request throws), "status" (4xx/5xx, raise_for_status throws),
\* "malformed" (the body is not JSON) or "incomplete" (a field is missing);
\* the CostEstimate is built inside the try block as well.
priced_by_api(pricing, replicas) ==
    pricing.outcome = "ok" /\ cost_estimate_valid(pricing.monthly_cost * replicas)

\* On any exception in the try block the fallback estimate.
fetch_current_costs(w, pricing) ==
    IF priced_by_api(pricing, w.replicas) THEN pricing.monthly_cost * w.replicas
    ELSE fallback_cost_estimate(w)

calculate_optimized_costs(w, config, pricing) ==
    IF priced_by_api(pricing, Get(config, "replicas", w.replicas))
    THEN pricing.monthly_cost * Get(config, "replicas", w.replicas)
    ELSE fallback_optimized_cost_estimate(w, config)

\* spot: the answer of GET /spot-prices for the instance type,
\* [ok, on_demand_price, spot_price]; zeros when there is none.
spot_vs_ondemand(w, spot) ==
    IF spot.ok
    THEN [on_demand_monthly |-> spot.on_demand_price * w.replicas,
          spot_monthly |-> spot.spot_price * w.replicas,
          monthly_savings |-> spot.on_demand_price * w.replicas
                                - spot.spot_price * w.replicas]
    ELSE [on_demand_monthly |-> 0, spot_monthly |-> 0, monthly_savings |-> 0]

(***************************************************************************)
(* The optimizer API: Recommender (recommender.py)                         *)
(***************************************************************************)
risk_level_of(score) ==
    IF score >= 70 THEN "high" ELSE IF score >= 50 THEN "medium" ELSE "low"

assess_risk(w, optimization_type, metrics) ==
    IF optimization_type = "spot_instances" THEN risk_level_of(50)
    ELSE risk_level_of(
            30 + (IF w.kind = "StatefulSet" THEN 20 ELSE 0)
               + (IF w.replicas = 1 THEN 15 ELSE 0)
               + (IF optimization_type \in {"reduce_replicas", "right_size_cpu"}
                     /\ metrics.cpu_utilization_pct > 800 THEN 20 ELSE 0))

NotEmitted == [emitted |-> FALSE]

recommendation(type, config, current, optimized, savings, confidence, level) ==
    [emitted |-> TRUE,
     rec |-> [optimization_type |-> type, recommended_config |-> config,
              current_monthly |-> current, optimized_monthly |-> optimized,
              monthly_savings |-> savings, confidence_score |-> confidence,
              level |-> level]]

\* A family that prices its config: emitted when the savings are positive.
priced(type, config, current, optimized, confidence, level) ==
    IF current - optimized <= 0 THEN NotEmitted
    ELSE recommendation(type, config, current, optimized, current - optimized,
                        confidence, level)

right_sizing_config(new_resources, replicas) ==
    [cpu_request |-> new_resources.cpu_request,
     memory_request |-> new_resources.memory_request,
     cpu_limit |-> new_resources.cpu_limit,
     memory_limit |-> new_resources.memory_limit,
     replicas |-> replicas]

create_right_sizing_recommendation(w, metrics, current_cost, pricing) ==
    IF right_size_resources(metrics) = w.current_resources THEN NotEmitted
    ELSE priced("right_size_cpu",
                right_sizing_config(right_size_resources(metrics), w.replicas),
                current_cost,
                calculate_optimized_costs(
                    w, right_sizing_config(right_size_resources(metrics), w.replicas),
                    pricing),
                calculate_confidence(metrics, "right_sizing"),
                assess_risk(w, "right_size_cpu", metrics))

replica_config(w, recommended_replicas) ==
    [cpu_request |-> w.current_resources.cpu_request,
     memory_request |-> w.current_resources.memory_request,
     cpu_limit |-> w.current_resources.cpu_limit,
     memory_limit |-> w.current_resources.memory_limit,
     replicas |-> recommended_replicas]

replica_type(w, recommended_replicas) ==
    IF recommended_replicas < w.replicas THEN "reduce_replicas" ELSE "increase_replicas"

create_replica_optimization_recommendation(w, metrics, current_cost, pricing) ==
    IF optimize_replicas(w, metrics, 700) = w.replicas THEN NotEmitted
    ELSE priced(replica_type(w, optimize_replicas(w, metrics, 700)),
                replica_config(w, optimize_replicas(w, metrics, 700)),
                current_cost,
                calculate_optimized_costs(
                    w, replica_config(w, optimize_replicas(w, metrics, 700)), pricing),
                calculate_confidence(metrics, "replica_optimization"),
                assess_risk(w, replica_type(w, optimize_replicas(w, metrics, 700)), metrics))

\* The savings and the optimized monthly cost come from the spot answer,
\* the current cost from the pricing answer.
spot_from(w, current_cost, confidence, spot_data) ==
    IF spot_data.monthly_savings <= 0 THEN NotEmitted
    ELSE recommendation("spot_instances",
                        w.current_resources
                            @@ [instance_type |-> "spot", replicas |-> w.replicas],
                        current_cost, spot_data.spot_monthly,
                        spot_data.monthly_savings, confidence, "medium")

create_spot_instance_recommendation(w, metrics, current_cost, spot) ==
    IF ~recommend_spot_instances(w, metrics).suitable THEN NotEmitted
    ELSE spot_from(w, current_cost, recommend_spot_instances(w, metrics).confidence,
                   spot_vs_ondemand(w, spot))

\* estimated_savings = current_cost.monthly * (1 - 0.5) * 0.5
scheduled_from(w, metrics, current_cost, opportunity, estimated_savings) ==
    IF estimated_savings <= 0 THEN NotEmitted
    ELSE recommendation("scheduled_scaling",
                        w.current_resources
                            @@ [scaling_schedule |-> opportunity.strategy,
                                peak_replicas |-> w.replicas,
                                off_peak_replicas |-> Max2(1, w.replicas \div 2)],
                        current_cost, current_cost - estimated_savings,
                        estimated_savings, opportunity.confidence,
                        assess_risk(w, "scheduled_scaling", metrics))

create_scheduled_scaling_recommendation(w, metrics, current_cost) ==
    IF ~detect_scheduled_scaling_opportunity(metrics).suitable THEN NotEmitted
    ELSE scheduled_from(w, metrics, current_cost,
                        detect_scheduled_scaling_opportunity(metrics),
                        current_cost \div 4)

create_unused_resource_recommendation(w, metrics, current_cost) ==
    recommendation("remove_unused", [action |-> "delete"], current_cost, 0,
                   current_cost, 60, "low")

\* The candidate appended when it is emitted with enough confidence.
kept(candidate, min_confidence) ==
    IF candidate.emitted /\ candidate.rec.confidence_score >= min_confidence
    THEN <<candidate.rec>>
    ELSE <<>>

\* list.sort(key=monthly_savings, reverse=True): stable, largest first.
RECURSIVE sort_by_savings(_)
sort_by_savings(recs) ==
    IF Len(recs) <= 1 THEN recs
    ELSE LET top == CHOOSE i \in 1..Len(recs) :
                      /\ \A j \in 1..Len(recs) :
                            recs[j].monthly_savings <= recs[i].monthly_savings
                      /\ \A j \in 1..(i - 1) :
                            recs[j].monthly_savings < recs[i].monthly_savings
         IN  <<recs[top]>> \o sort_by_savings(
                 [k \in 1..(Len(recs) - 1) |-> IF k < top THEN recs[k] ELSE recs[k + 1]])

candidates(w, metrics, min_confidence, current_cost, answers) ==
    (IF detect_unused_resources(metrics, 50)
     THEN kept(create_unused_resource_recommendation(w, metrics, current_cost),
               min_confidence)
     ELSE <<>>)
    \o kept(create_right_sizing_recommendation(w, metrics, current_cost,
                                                answers.right_sizing), min_confidence)
    \o kept(create_replica_optimization_recommendation(w, metrics, current_cost,
                                                        answers.replicas), min_confidence)
    \o kept(create_spot_instance_recommendation(w, metrics, current_cost, answers.spot),
            min_confidence)
    \o kept(create_scheduled_scaling_recommendation(w, metrics, current_cost),
            min_confidence)

\* answers: what the pricing collaborator answers to each call.
generate_recommendations(w, metrics, min_confidence, answers) ==
    sort_by_savings(candidates(w, metrics, min_confidence,
                               fetch_current_costs(w, answers.current), answers))

(***************************************************************************)
(* The optimizer API: POST /optimize/{workload_id} (main.py)               *)
(***************************************************************************)
\* a <= b on the values of RiskLevel, which are the strings "low",
\* "medium", "high" and "critical": the order of Python strings, in which
\* "critical" < "high" < "low" < "medium".
risk_value_le(a, b) ==
    LET place == [critical |-> 1, high |-> 2, low |-> 3, medium |-> 4]
    IN  place[a] <= place[b]

\* Whether recs[i] passes the two filters of the endpoint; body.given is
\* FALSE for a request without a body, and an empty optimization_types
\* list filters nothing.
passes_filters(rec, body) ==
    /\ body.given => risk_value_le(rec.level, body.max_risk_level)
    /\ (body.given /\ Len(body.optimization_types) > 0) =>
           \E j \in 1..Len(body.optimization_types) :
               body.optimization_types[j] = rec.optimization_type

\* A list comprehension: the elements that pass, in their order.
RECURSIVE filtered(_, _)
filtered(recs, body) ==
    IF Len(recs) = 0 THEN <<>>
    ELSE (IF passes_filters(recs[1], body) THEN <<recs[1]>> ELSE <<>>)
         \o filtered(Tail(recs), body)

\* optimize_workload: the recommendations of the response.
optimize_workload(w, metrics, body, answers) ==
    filtered(generate_recommendations(w, metrics,
                                      IF body.given THEN body.min_confidence ELSE 60,
                                      answers),
             body)

(***************************************************************************)
(* Calls of generate_recommendations                                       *)
(***************************************************************************)
ResourceSpecs ==
    {[cpu_request |-> <<500, "m">>, memory_request |-> <<512, "Mi">>,
      cpu_limit |-> <<750, "m">>, memory_limit |-> <<666, "Mi">>],
     [cpu_request |-> <<10, "cores">>, memory_request |-> <<1, "Gi">>,
      cpu_limit |-> <<20, "cores">>, memory_limit |-> <<2, "Gi">>]}

ApiWorkloads ==
    [kind : {"Deployment", "StatefulSet"}, replicas : {1, 2, 4},
     current_resources : ResourceSpecs]

CpuUsages ==
    {[avg |-> 100, p50 |-> 100, p95 |-> 110], [avg |-> 100, p50 |-> 100, p95 |-> 125],
     [avg |-> 100, p50 |-> 100, p95 |-> 150], [avg |-> 400, p50 |-> 420, p95 |-> 435]}

MemoryUsages ==
    {[avg |-> 200, p50 |-> 200, p95 |-> 210], [avg |-> 440, p50 |-> 440, p95 |-> 446]}

Samplings ==
    {[sample_count |-> 50, time_range_hours |-> 24],
     [sample_count |-> 2000, time_range_hours |-> 200]}

ApiMetrics ==
    {[cpu_usage |-> c, memory_usage |-> m, cpu_utilization_pct |-> cu,
      memory_utilization_pct |-> mu, sample_count |-> sp.sample_count,
      time_range_hours |-> sp.time_range_hours] :
        c \in CpuUsages, m \in MemoryUsages, cu \in {30, 250, 600, 900}, mu \in {30, 500},
        sp \in Samplings}

PricingAnswers ==
    {[outcome |-> "timeout", monthly_cost |-> 0], [outcome |-> "ok", monthly_cost |-> 400000],
     [outcome |-> "ok", monthly_cost |-> 800000]}

SpotAnswers ==
    {[ok |-> FALSE, on_demand_price |-> 0, spot_price |-> 0],
     [ok |-> TRUE, on_demand_price |-> 600000, spot_price |-> 200000],
     [ok |-> TRUE, on_demand_price |-> 200000, spot_price |-> 200000]}

CollaboratorAnswers ==
    [current : PricingAnswers, right_sizing : PricingAnswers,
     replicas : PricingAnswers, spot : SpotAnswers]

InitRecommender ==
    /\ request \in {[made |-> TRUE, workload |-> w, metrics |-> m, min_confidence |-> c] :
                        w \in ApiWorkloads, m \in ApiMetrics, c \in {50, 70}}
    /\ recommendations = <<>>
    /\ decl = [metadata |-> EmptyDict, spec |-> EmptyDict]
    /\ life = "api"
    /\ status = EmptyDict
    /\ workload = NoWorkload
    /\ redis = EmptyDict
    /\ configmaps = EmptyDict
    /\ last = Idle
    /\ origin = NoWorkload
    /\ steps = 0

\* One call of Recommender.generate_recommendations for the request.
recommend ==
    /\ life = "api"
    /\ last.op = "none"
    /\ \E answers \in CollaboratorAnswers :
          recommendations' = generate_recommendations(request.workload, request.metrics,
                                                      request.min_confidence, answers)
    /\ last' = [Idle EXCEPT !.op = "recommend", !.found = Len(recommendations') > 0]
    /\ UNCHANGED <<decl, life, status, workload, redis, configmaps, origin, steps, request>>

NextRecommender == recommend

SpecRecommender == InitRecommender /\ [][NextRecommender]_vars

(***************************************************************************)
(* Direct calls of the functions of MLEngine and of CostCalculator, and    *)
(* requests to POST /optimize/{workload_id}                                *)
(***************************************************************************)
SampleCounts == {50, 101, 501, 1001, 2000}

TimeRanges == {24, 72, 100, 168}

\* The utilizations reach each branch of optimize_replicas, and with 10
\* replicas the targets 8.5 (595), 9.3 (650), 10.7 (750), 11.2 (784) and
\* 11.5 (805) at the default target utilization.
ReplicaRequests ==
    {[call |-> "optimize_replicas",
      workload |-> [kind |-> k, replicas |-> n],
      metrics |-> [cpu_utilization_pct |-> cu, memory_utilization_pct |-> mu],
      target_utilization |-> t] :
        k \in {"Deployment", "StatefulSet"}, n \in {1, 2, 3, 5, 6, 7, 8, 10},
        cu \in {100, 150, 250, 595, 650, 750, 784, 805, 900}, mu \in {50, 700},
        t \in {500, 700, 2000}}

ConfidenceRequests ==
    {[call |-> "calculate_confidence",
      metrics |-> [cpu_usage |-> c, memory_usage |-> m, cpu_utilization_pct |-> cu,
                   memory_utilization_pct |-> 500, sample_count |-> n,
                   time_range_hours |-> h],
      optimization_type |-> ty] :
        c \in CpuUsages, m \in MemoryUsages, cu \in {100, 600, 950},
        n \in SampleCounts, h \in TimeRanges,
        ty \in {"right_sizing", "replica_optimization"}}

\* Calls of fetch_current_costs and calculate_optimized_costs: a workload,
\* a recommended config, and the outcome of the pricing call.
CostRequests ==
    {[call |-> c,
      workload |-> [kind |-> "Deployment", replicas |-> n, current_resources |-> r],
      config |-> cfg,
      pricing |-> [outcome |-> o, monthly_cost |-> a]] :
        c \in {"fetch_current_costs", "calculate_optimized_costs"},
        n \in {0, 1, 3}, r \in ResourceSpecs,
        cfg \in {EmptyDict, [replicas |-> 2],
                 [cpu_request |-> <<250, "m">>, memory_request |-> <<256, "Mi">>]},
        o \in {"ok", "timeout", "status", "malformed", "incomplete"},
        a \in {-5, 0, 400000}}

\* Calls of detect_patterns: variances of 0.1, 0.25, 0.5, 0.0375 and 0
\* (avg 0) for cpu, of 0.05, 0.0136 and 0.35 for memory.
PatternRequests ==
    {[call |-> "detect_patterns",
      metrics |-> [cpu_usage |-> c, memory_usage |-> m, cpu_utilization_pct |-> cu,
                   memory_utilization_pct |-> 100]] :
        c \in CpuUsages \cup {[avg |-> 0, p50 |-> 0, p95 |-> 0]},
        m \in MemoryUsages \cup {[avg |-> 100, p50 |-> 100, p95 |-> 135]},
        cu \in {100, 500}}

\* Calls of bin_packing with up to three workloads (cpu in cores, memory in
\* GiB; a workload may lack both keys) on nodes of 8 cores / 32 GiB or
\* 4 cores / 16 GiB.
BinPackingRequests ==
    {[call |-> "bin_packing",
      workloads |-> [i \in DOMAIN shapes |-> [id |-> i] @@ shapes[i]],
      node_capacity |-> cap] :
        shapes \in UNION {[1..n -> {EmptyDict,
                                     [cpu_request |-> 1, memory_request |-> 2],
                                     [cpu_request |-> 3, memory_request |-> 10],
                                     [cpu_request |-> 7, memory_request |-> 2],
                                     [cpu_request |-> 1, memory_request |-> 28]}] :
                           n \in 0..3},
        cap \in {[cpu |-> 8, memory |-> 32], [cpu |-> 4, memory |-> 16]}}

\* Requests to POST /optimize/{workload_id}: the workload and metrics the
\* endpoint fetches, and the body of the request (given = FALSE: none).
OptimizeRequests ==
    {[call |-> "optimize_workload",
      workload |-> [kind |-> k, replicas |-> n,
                    current_resources |->
                        [cpu_request |-> <<500, "m">>, memory_request |-> <<512, "Mi">>,
                         cpu_limit |-> <<750, "m">>, memory_limit |-> <<666, "Mi">>]],
      metrics |-> [cpu_usage |-> [avg |-> 100, p50 |-> 100, p95 |-> 110],
                   memory_usage |-> [avg |-> 200, p50 |-> 200, p95 |-> 210],
                   cpu_utilization_pct |-> cu, memory_utilization_pct |-> 500,
                   sample_count |-> 2000, time_range_hours |-> 200],
      body |-> b] :
        k \in {"Deployment", "StatefulSet"}, n \in {1, 4}, cu \in {250, 900},
        b \in {[given |-> FALSE]}
              \cup [given : {TRUE}, min_confidence : {60},
                    max_risk_level : {"low", "medium", "high", "critical"},
                    optimization_types : {<<>>, <<"right_size_cpu", "reduce_replicas">>}]}

InitOptimizer ==
    /\ request \in ReplicaRequests \cup ConfidenceRequests \cup CostRequests
                    \cup PatternRequests \cup BinPackingRequests \cup OptimizeRequests
    /\ recommendations = <<>>
    /\ decl = [metadata |-> EmptyDict, spec |-> EmptyDict]
    /\ life = "api"
    /\ status = EmptyDict
    /\ workload = NoWorkload
    /\ redis = EmptyDict
    /\ configmaps = EmptyDict
    /\ last = [op |-> "none"]
    /\ origin = NoWorkload
    /\ steps = 0

\* One call of optimize_replicas; proposed is the replica count before the
\* StatefulSet and 15% rules.
call_optimize_replicas ==
    /\ last.op = "none"
    /\ request.call = "optimize_replicas"
    /\ last' = [op |-> "optimize_replicas",
                proposed |-> replicas_for(request.workload.replicas,
                                          Max2(request.metrics.cpu_utilization_pct,
                                               request.metrics.memory_utilization_pct),
                                          request.target_utilization),
                replicas |-> optimize_replicas(request.workload, request.metrics,
                                               request.target_utilization)]
    /\ UNCHANGED <<decl, life, status, workload, redis, configmaps, origin, steps,
                   request, recommendations>>

\* One call of calculate_confidence.
call_calculate_confidence ==
    /\ last.op = "none"
    /\ request.call = "calculate_confidence"
    /\ last' = [op |-> "calculate_confidence",
                confidence |-> calculate_confidence(request.metrics,
                                                    request.optimization_type)]
    /\ UNCHANGED <<decl, life, status, workload, redis, configmaps, origin, steps,
                   request, recommendations>>

\* The record of a call that ended with the estimate `monthly`: building a
\* CostEstimate from an invalid amount outside the try block raises.
cost_call(op, monthly, from_api) ==
    [op |-> op, monthly |-> monthly, from_api |-> from_api,
     raised |-> ~cost_estimate_valid(monthly)]

call_fetch_current_costs ==
    /\ last.op = "none"
    /\ request.call = "fetch_current_costs"
    /\ last' = cost_call("fetch_current_costs",
                         fetch_current_costs(request.workload, request.pricing),
                         priced_by_api(request.pricing, request.workload.replicas))
    /\ UNCHANGED <<decl, life, status, workload, redis, configmaps, origin, steps,
                   request, recommendations>>

call_calculate_optimized_costs ==
    /\ last.op = "none"
    /\ request.call = "calculate_optimized_costs"
    /\ last' = cost_call("calculate_optimized_costs",
                         calculate_optimized_costs(request.workload, request.config,
                                                   request.pricing),
                         priced_by_api(request.pricing,
                                       Get(request.config, "replicas",
                                           request.workload.replicas)))
    /\ UNCHANGED <<decl, life, status, workload, redis, configmaps, origin, steps,
                   request, recommendations>>

\* One call of detect_patterns.
call_detect_patterns ==
    /\ last.op = "none"
    /\ request.call = "detect_patterns"
    /\ last' = [op |-> "detect_patterns",
                pattern |-> detect_patterns(request.metrics).pattern,
                recommended_scaling |-> detect_patterns(request.metrics).recommended_scaling]
    /\ UNCHANGED <<decl, life, status, workload, redis, configmaps, origin, steps,
                   request, recommendations>>

\* One call of bin_packing.
call_bin_packing ==
    /\ last.op = "none"
    /\ request.call = "bin_packing"
    /\ last' = [op |-> "bin_packing",
                result |-> bin_packing(request.workloads, request.node_capacity)]
    /\ UNCHANGED <<decl, life, status, workload, redis, configmaps, origin, steps,
                   request, recommendations>>

\* One request to POST /optimize/{workload_id}.
call_optimize_workload ==
    /\ last.op = "none"
    /\ request.call = "optimize_workload"
    /\ \E answers \in CollaboratorAnswers :
          recommendations' = optimize_workload(request.workload, request.metrics,
                                               request.body, answers)
    /\ last' = [op |-> "optimize_workload"]
    /\ UNCHANGED <<decl, life, status, workload, redis, configmaps, origin, steps,
                   request>>

NextOptimizer ==
    \/ call_optimize_replicas \/ call_calculate_confidence
    \/ call_fetch_current_costs \/ call_calculate_optimized_costs
    \/ call_detect_patterns \/ call_bin_packing \/ call_optimize_workload

SpecOptimizer == InitOptimizer /\ [][NextOptimizer]_vars

(***************************************************************************)
(* Vocabulary of the properties                                            *)
(***************************************************************************)
\* The order LOW < MEDIUM < HIGH < CRITICAL, read without regard to case.
rank(level) ==
    CASE level \in {"low", "LOW"} -> 1
      [] level \in {"medium", "MEDIUM"} -> 2
      [] level \in {"high", "HIGH"} -> 3
      [] OTHER -> 4

auto_apply(d) == Get(d.spec, "autoApply", FALSE)

dry_run(d) == Get(d.spec, "dryRun", TRUE)

\* The auto-apply criteria as the declaration states them.
criteria_hold(d, rec) ==
    /\ rec.confidence_score >= Get(d.spec, "minConfidence", 70)
    /\ rank(rec.level) <= rank(Get(d.spec, "maxRiskLevel", "MEDIUM"))

\* A step of the periodic tick.
TickStep == last'.op = "tick" /\ steps' = steps + 1

\* A step that wrote to the workload or to the snapshot store.
Wrote ==
    \/ workload' # workload \/ redis' # redis \/ configmaps' # configmaps
    \/ last'.stored \/ last'.patched

(***************************************************************************)
(* C1..C3: the auto-apply gate and dry-run                                 *)
(***************************************************************************)
\* C1: a tick writes to the workload or to the snapshot store only when the
\* declaration has autoApply and not dryRun and the chosen recommendation
\* meets the confidence and risk criteria; a tick whose declaration has
\* autoApply and not dryRun but whose recommendation fails a criterion ends
\* Ready with the 'found but not applied' message and writes nothing.
C1_OnlyGatedTicksWrite ==
    [][TickStep =>
        /\ Wrote => /\ last'.found /\ auto_apply(decl) /\ ~dry_run(decl)
                    /\ criteria_hold(decl, last'.rec)
        /\ (last'.found /\ auto_apply(decl) /\ ~dry_run(decl)
                /\ ~criteria_hold(decl, last'.rec))
            => /\ status'.phase = "Ready"
               /\ status'.message = <<"Optimization found but not applied",
                                      last'.rec.confidence_score, last'.rec.level>>
               /\ ~Wrote]_vars

\* A tick has snapshotted and patched the workload.
C1_Witness ==
    /\ last.op = "tick" /\ last.stored /\ last.patched
    /\ "optimized" \in workload.annotations
    /\ auto_apply(decl) /\ ~dry_run(decl) /\ criteria_hold(decl, last.rec)

\* C2: after a tick of a declaration with autoApply, not dryRun and
\* maxRiskLevel MEDIUM whose best recommendation has enough confidence and
\* the level low or medium as the Recommender emits it, an apply was
\* attempted and the phase is Applied or Failed, not Ready.
C2_CriteriaMetTickApplies ==
    (/\ last.op = "tick" /\ last.found
     /\ auto_apply(decl) /\ ~dry_run(decl)
     /\ Get(decl.spec, "maxRiskLevel", "MEDIUM") = "MEDIUM"
     /\ last.rec.confidence_score >= Get(decl.spec, "minConfidence", 70)
     /\ last.rec.level \in {"low", "medium"})
    => /\ last.attempted
       /\ status.phase \in {"Applied", "Failed"}

\* C3: with dryRun no tick writes to the workload or to the snapshot
\* store, and a tick that found a recommendation ends Ready with the
\* would-be savings in its message; apply_optimization with dry_run=True
\* stores and patches nothing, and returns True whenever the workload
\* exists and is read.
C3_DryRunWritesNothing ==
    [][/\ (TickStep /\ dry_run(decl)) =>
            /\ ~Wrote
            /\ status'.phase = "Ready"
            /\ last'.found =>
                  status'.message = <<"Dry-run mode: Would save", last'.rec.monthly_savings>>
       /\ last'.op = "apply_dry_run" =>
            /\ ~Wrote
            /\ last'.success <=>
                  (last'.api_read = "ok" /\ workload.exists
                     /\ target_kind(decl) \in SupportedKinds)]_vars

\* A dry-run tick has reported would-be savings for a declaration that
\* asks for auto-apply.
C3_Witness ==
    /\ last.op = "tick" /\ last.found /\ dry_run(decl) /\ auto_apply(decl)
    /\ status.phase = "Ready"
    /\ status.message = <<"Dry-run mode: Would save", last.rec.monthly_savings>>
    /\ workload.exists /\ workload.annotations = {}

\* C3 as stated: every apply_optimization with dry_run=True returns True.
C3_AsStated ==
    [][/\ (TickStep /\ dry_run(decl)) =>
            /\ ~Wrote
            /\ status'.phase = "Ready"
            /\ last'.found =>
                  status'.message = <<"Dry-run mode: Would save", last'.rec.monthly_savings>>
       /\ last'.op = "apply_dry_run" => (~Wrote /\ last'.success)]_vars


(***************************************************************************)
(* C4: snapshot and rollback round trip                                    *)
(***************************************************************************)
\* Every snapshot in either tier is the one taken of `origin`.
SnapshotsAreOfOrigin ==
    LET snap == snapshot_state(target_name(decl), target_kind(decl),
                               target_namespace(decl), origin)
    IN  /\ \A k \in DOMAIN redis : redis[k] = snap
        /\ \A k \in DOMAIN configmaps : configmaps[k] = snap

\* C4: after store_original_state on state S, an apply and a successful
\* execute_rollback, the workload has S's replicas and every container has
\* S's requests and limits.
C4_RollbackRestoresSnapshot ==
    (/\ last.op = "rollback" /\ last.rollback_ok
     /\ origin.exists /\ "optimized" \in workload.annotations
     /\ SnapshotsAreOfOrigin)
    => /\ workload.replicas = origin.replicas
       /\ workload.containers = origin.containers


(***************************************************************************)
(* C5, C6: admission                                                       *)
(***************************************************************************)
\* C5: a declaration that validate_cost_optimization accepts has
\* autoApply => ~dryRun and autoApply => maxRiskLevel in {LOW, MEDIUM}
\* (absent fields read with their defaults).
C5_AcceptedIsExclusive ==
    (last.op = "validate" /\ last.success)
    => /\ auto_apply(decl) => ~dry_run(decl)
       /\ auto_apply(decl) => Get(decl.spec, "maxRiskLevel", "MEDIUM") \in {"LOW", "MEDIUM"}

\* An auto-apply declaration has been accepted.
C5_Witness ==
    /\ last.op = "validate" /\ last.success
    /\ auto_apply(decl) /\ ~dry_run(decl)
    /\ Get(decl.spec, "maxRiskLevel", "MEDIUM") \in {"LOW", "MEDIUM"}

\* C6: no admitted declaration has the workload the controller acts on
\* (targetWorkload.namespace when present, else the declaration's own
\* namespace) in a protected system namespace.
C6_NoProtectedNamespaceAdmitted ==
    life = "admitted" => target_namespace(decl) \notin protected_namespaces


(***************************************************************************)
(* C7..C9: deletion and the status counters                                *)
(***************************************************************************)
rollback_on_failure(d) == Get(d.spec, "rollbackOnFailure", TRUE)

\* C7: a deletion invokes execute_rollback once when the phase is Applied
\* and rollbackOnFailure (default true) holds, and not at all otherwise, in
\* which case the workload is unchanged; the handler does not raise and
\* the deletion completes.
C7_DeleteRollsBackIffApplied ==
    [][last'.op = "delete" =>
        /\ last'.rollbacks = IF status.phase = "Applied" /\ rollback_on_failure(decl)
                             THEN 1 ELSE 0
        /\ last'.rollbacks = 0 => workload' = workload
        /\ ~last'.raised
        /\ life' = "deleted"]_vars

\* A deletion has rolled an applied workload back.
C7_Witness ==
    /\ life = "deleted" /\ last.op = "delete"
    /\ last.rollbacks = 1 /\ last.rollback_ok
    /\ status.phase = "Applied"
    /\ "rolled-back" \in workload.annotations

\* C8: a deleted declaration that has applied an optimization and has
\* rollbackOnFailure got a rollback on its deletion, whatever happened
\* between the apply and the deletion.
C8_AppliedIsRevertedOnDelete ==
    (/\ life = "deleted"
     /\ status.appliedOptimizations > 0
     /\ rollback_on_failure(decl))
    => last.rollbacks = 1

\* C9: a tick ends Applied exactly when its apply succeeded, and then
\* appliedOptimizations grows by 1 and totalSavings by the recommendation's
\* monthly_savings; a failed apply ends Failed with both counters
\* unchanged; a tick without an apply leaves both counters unchanged.
C9_CountersFollowApplies ==
    [][TickStep =>
        /\ status'.phase = "Applied" <=> last'.success
        /\ last'.success =>
              /\ last'.attempted
              /\ status'.appliedOptimizations = status.appliedOptimizations + 1
              /\ status'.totalSavings = status.totalSavings + last'.rec.monthly_savings
        /\ (last'.attempted /\ ~last'.success) =>
              /\ status'.phase = "Failed"
              /\ status'.appliedOptimizations = status.appliedOptimizations
              /\ status'.totalSavings = status.totalSavings
        /\ ~last'.attempted =>
              /\ status'.appliedOptimizations = status.appliedOptimizations
              /\ status'.totalSavings = status.totalSavings]_vars

\* A second successful apply has been counted after a first one.
C9_Witness ==
    /\ last.op = "tick" /\ last.success
    /\ status.phase = "Applied"
    /\ status.appliedOptimizations = 2
    /\ status.totalSavings > last.rec.monthly_savings


(***************************************************************************)
(* C10: the savings of a recommendation                                    *)
(***************************************************************************)
\* C10: every recommendation generate_recommendations returns has
\* monthly_savings = current_cost.monthly - optimized_cost.monthly and
\* current_cost.monthly > optimized_cost.monthly.
C10_SavingsAreTheCostDifference ==
    \A i \in 1..Len(recommendations) :
        /\ recommendations[i].monthly_savings
              = recommendations[i].current_monthly - recommendations[i].optimized_monthly
        /\ recommendations[i].current_monthly > recommendations[i].optimized_monthly

(***************************************************************************)
(* C11..C14: MLEngine.optimize_replicas and calculate_confidence           *)
(***************************************************************************)
\* The call of optimize_replicas has returned.
ReplicasReturned == last.op = "optimize_replicas"

\* max(avg_cpu_util, avg_memory_util) of the request.
MaxUtilization ==
    Max2(request.metrics.cpu_utilization_pct, request.metrics.memory_utilization_pct)

\* The request has 10 replicas and a utilization between 30% and 85%, for
\* which the computed target is 10 * max_utilization / target_utilization.
TenReplicasScaledByUtilization ==
    /\ request.workload.replicas = 10
    /\ MaxUtilization >= 300 /\ MaxUtilization <= 850

\* C11: optimize_replicas never returns a count that differs from the
\* current one by less than 15% of it; with 10 replicas every computed
\* target strictly between 8.5 and 11.5 yields 10.
C11_SmallChangesAreKept ==
    ReplicasReturned =>
        /\ last.replicas # request.workload.replicas =>
              Abs(last.replicas - request.workload.replicas) * 100
                  >= 15 * request.workload.replicas
        /\ (/\ TenReplicasScaledByUtilization
            /\ 85 * request.target_utilization < 100 * MaxUtilization
            /\ 100 * MaxUtilization < 115 * request.target_utilization)
           => last.replicas = 10

\* With 10 replicas a proposal of 9 or 11 has been answered by 10.
C11_Witness ==
    /\ ReplicasReturned /\ TenReplicasScaledByUtilization
    /\ 85 * request.target_utilization < 100 * MaxUtilization
    /\ 100 * MaxUtilization < 115 * request.target_utilization
    /\ last.proposed # 10
    /\ last.replicas = 10

\* C11 as stated: with 10 replicas every computed target in the closed
\* band [8.5, 11.5] yields 10.
C11_AsStated ==
    (/\ ReplicasReturned /\ TenReplicasScaledByUtilization
     /\ 85 * request.target_utilization <= 100 * MaxUtilization
     /\ 100 * MaxUtilization <= 115 * request.target_utilization)
    => last.replicas = 10

\* C12: for a StatefulSet optimize_replicas never returns fewer replicas
\* than the current count, whatever the utilizations and the target
\* utilization are.
C12_StatefulSetNeverShrinks ==
    (ReplicasReturned /\ request.workload.kind = "StatefulSet")
    => last.replicas >= request.workload.replicas

\* A StatefulSet for which fewer replicas were proposed has kept its count,
\* at a target utilization other than the default.
C12_Witness ==
    /\ ReplicasReturned /\ request.workload.kind = "StatefulSet"
    /\ request.target_utilization # 700
    /\ last.proposed < request.workload.replicas
    /\ last.replicas = request.workload.replicas

\* The scenario of C13: a Deployment with 8 replicas, cpu 75%, memory 70%,
\* target utilization 70.
EightReplicasAt75 ==
    /\ ReplicasReturned
    /\ request.workload = [kind |-> "Deployment", replicas |-> 8]
    /\ request.metrics.cpu_utilization_pct = 750
    /\ request.metrics.memory_utilization_pct = 700
    /\ request.target_utilization = 700

\* C13: for a Deployment with 8 replicas at 75%/70% utilization the count
\* computed is round(8 * 75 / 70) = 9; being a change of 12.5%, below 15%,
\* it is not returned: optimize_replicas returns 8.
C13_NineProposedEightReturned ==
    EightReplicasAt75 => (last.proposed = 9 /\ last.replicas = 8)

C13_Witness == EightReplicasAt75 /\ last.replicas = request.workload.replicas

\* C13 as stated: optimize_replicas returns 9 in the scenario.
C13_AsStated == EightReplicasAt75 => last.replicas = 9

\* C14: calculate_confidence returns a value in [0, 1], and with the other
\* inputs fixed a larger sample_count or a larger time_range_hours never
\* gives a smaller value.
C14_ConfidenceBoundedAndMonotone ==
    last.op = "calculate_confidence" =>
        /\ last.confidence >= 0 /\ last.confidence <= 100
        /\ \A n \in SampleCounts :
              n >= request.metrics.sample_count =>
                 calculate_confidence([request.metrics EXCEPT !.sample_count = n],
                                      request.optimization_type) >= last.confidence
        /\ \A h \in TimeRanges :
              h >= request.metrics.time_range_hours =>
                 calculate_confidence([request.metrics EXCEPT !.time_range_hours = h],
                                      request.optimization_type) >= last.confidence

\* All the terms are at their largest (their sum is 1.05) and 1.0 is
\* returned.
C14_Witness ==
    /\ last.op = "calculate_confidence"
    /\ request.metrics.sample_count > 1000 /\ request.metrics.time_range_hours >= 168
    /\ request.optimization_type = "right_sizing"
    /\ request.metrics.cpu_utilization_pct > 900
    /\ avg_variance_below(calculate_variance(request.metrics.cpu_usage),
                          calculate_variance(request.metrics.memory_usage), 15)
    /\ last.confidence = 100

(***************************************************************************)
(* C15: the cost estimate and the pricing call                             *)
(***************************************************************************)
\* A call of fetch_current_costs or of calculate_optimized_costs has ended.
CostCallEnded == last.op \in {"fetch_current_costs", "calculate_optimized_costs"}

\* The local linear fallback for the request.
FallbackOfRequest ==
    IF request.call = "fetch_current_costs"
    THEN fallback_cost_estimate(request.workload)
    ELSE fallback_optimized_cost_estimate(request.workload, request.config)

\* C15: whatever the outcome of the pricing call, fetch_current_costs and
\* calculate_optimized_costs return an estimate with amounts >= 0 and raise
\* nothing; when the call times out, answers 4xx/5xx or answers with a
\* malformed or incomplete payload, the estimate is the fallback's.
C15_EstimateForEveryPricingOutcome ==
    CostCallEnded =>
        /\ ~last.raised
        /\ last.monthly >= 0
        /\ request.pricing.outcome # "ok" =>
              (~last.from_api /\ last.monthly = FallbackOfRequest)

\* A pricing call that failed has been answered by a positive fallback
\* estimate.
C15_Witness ==
    /\ CostCallEnded
    /\ request.pricing.outcome \in {"timeout", "malformed"}
    /\ ~last.raised
    /\ last.monthly = FallbackOfRequest /\ last.monthly > 0

(***************************************************************************)
(* C16..C18: the snapshot store                                            *)
(***************************************************************************)
\* The fast-tier and the durable-tier key of the workload last loaded or
\* stored.
LastRedisKey == redis_key(last.key.namespace, last.key.kind, last.key.name)

LastConfigMapKey == configmap_key(last.key.namespace, last.key.name)

\* The load could read the fast tier and the fast tier holds the key.
FastTierAnswers ==
    last.has_redis /\ last.redis_read = "ok" /\ LastRedisKey \in DOMAIN redis

C17_StoreLeavesOtherKeysAlone ==
    [][last'.op = "store" =>
         \A k \in SnapshotKeys \ {last'.key} :
            \A has_redis \in BOOLEAN, redis_read \in {"ok", "raise"} :
               get_original_state(redis', configmaps', k.name, k.kind, k.namespace,
                                  has_redis, redis_read, "ok")
               = get_original_state(redis, configmaps, k.name, k.kind, k.namespace,
                                    has_redis, redis_read, "ok")]_vars

\* C18: after a store that reported success both tiers hold the state
\* that was stored.
C18_SuccessfulStoreIsInBothTiers ==
    (last.op = "store" /\ last.ok) =>
        /\ LastRedisKey \in DOMAIN redis
        /\ redis[LastRedisKey] = last.state
        /\ LastConfigMapKey \in DOMAIN configmaps
        /\ configmaps[LastConfigMapKey] = last.state

(***************************************************************************)
(* C19, C20: execute_rollback                                              *)
(***************************************************************************)
\* A step of execute_rollback called directly.
RollbackStep == last'.op = "rollback"

\* Neither tier holds a snapshot for the target workload.
NoSnapshot ==
    /\ redis_key(target_namespace(decl), target_kind(decl), target_name(decl))
          \notin DOMAIN redis
    /\ configmap_key(target_namespace(decl), target_name(decl)) \notin DOMAIN configmaps

\* C19: with no snapshot in either tier execute_rollback returns False and
\* patches nothing: the workload is as it was.
C19_NoSnapshotNoPatch ==
    [][(RollbackStep /\ NoSnapshot) =>
          /\ ~last'.rollback_ok
          /\ last'.patches = 0
          /\ workload' = workload]_vars

\* A workload that was optimized without a snapshot being stored has been
\* asked to roll back, and has stayed optimized.
C19_Witness ==
    /\ last.op = "rollback" /\ NoSnapshot
    /\ ~last.rollback_ok
    /\ "optimized" \in workload.annotations
    /\ "rolled-back" \notin workload.annotations

\* C20: execute_rollback patches the workload at most once and writes
\* nothing else; when the validation after the patch fails, the result of
\* the one patch stands and is what is reported.
C20_AtMostOnePatch ==
    [][RollbackStep =>
          /\ last'.patches <= 1
          /\ UNCHANGED <<redis, configmaps>>
          /\ last'.patches = 0 => workload' = workload
          /\ last'.rollback_ok <=> last'.patches = 1
          /\ last'.validated => last'.patches = 1]_vars

\* A rollback has patched, and its validation has failed on a workload
\* that was scaled in between.
C20_Witness ==
    /\ last.op = "rollback"
    /\ last.patches = 1 /\ last.rollback_ok /\ ~last.validated
    /\ "rolled-back" \in workload.annotations

(***************************************************************************)
(* C21..C24: what a tick does with kinds it cannot handle, with the         *)
(* snapshot, with maxChangePercent and with a failed analysis              *)
(***************************************************************************)
\* C21: a tick for a declaration whose target kind is outside Deployment,
\* StatefulSet and DaemonSet, and a tick that reaches the apply for a
\* DaemonSet, ends in phase Failed and leaves the workload as it was; it
\* does not end Ready with 'No optimization opportunities found'.
C21_UnsupportedKindFails ==
    [][TickStep =>
        /\ target_kind(decl) \notin SupportedKinds =>
              /\ status'.phase = "Failed"
              /\ status'.message # <<"No optimization opportunities found">>
              /\ workload' = workload
        /\ (target_kind(decl) = "DaemonSet" /\ last'.attempted) =>
              /\ status'.phase = "Failed"
              /\ workload' = workload]_vars

\* C22: a tick patches the workload only when the snapshot it stored
\* reached at least one tier, and in every state with phase Applied a
\* snapshot of the target workload is held by some tier.
C22_AppliedHasSnapshot ==
    /\ (last.op = "tick" /\ last.patched) => last.stored
    /\ status.phase = "Applied" => ~NoSnapshot

\* _parse_cpu in millicores and _parse_memory in MiB, on the quantity
\* strings of the workloads and of the recommended configs.
Millicores(q) == CASE q = "500m" -> 500 [] q = "250m" -> 250 [] OTHER -> 0

Mebibytes(q) == CASE q = "512Mi" -> 512 [] q = "256Mi" -> 256 [] OTHER -> 0

\* The config would change the replica count, the cpu request or the
\* memory request of the live workload w by more than percent % of the
\* live value.
ExceedsMaxChange(w, config, percent) ==
    \/ /\ "replicas" \in DOMAIN config
       /\ Abs(config["replicas"] - w.replicas) * 100 > percent * w.replicas
    \/ /\ "cpu_request" \in DOMAIN config
       /\ Abs(Millicores(config["cpu_request"])
                - Millicores(Get(extract_resources(w), "cpu_request", "0"))) * 100
             > percent * Millicores(Get(extract_resources(w), "cpu_request", "0"))
    \/ /\ "memory_request" \in DOMAIN config
       /\ Abs(Mebibytes(config["memory_request"])
                - Mebibytes(Get(extract_resources(w), "memory_request", "0"))) * 100
             > percent * Mebibytes(Get(extract_resources(w), "memory_request", "0"))

\* C23: a tick whose auto-apply criteria hold but whose recommended config
\* would change the replicas, the cpu request or the memory request of the
\* live workload by more than maxChangePercent does not patch: it ends in
\* phase Failed with the workload as it was.
C23_MaxChangePercentEnforced ==
    [][(/\ TickStep /\ last'.attempted /\ workload.exists
        /\ ExceedsMaxChange(workload, last'.config,
                            Get(decl.spec, "maxChangePercent", 50)))
       => /\ status'.phase = "Failed"
          /\ ~last'.patched
          /\ workload' = workload]_vars

\* The recommendation API answered non-200 or the call threw, or the target
\* workload was not found.
AnalysisFailed ==
    \/ last'.api_answer = "error"
    \/ ~live(workload, target_namespace(decl), target_name(decl)).exists

\* C24: a tick whose call of the recommendation API fails, or whose target
\* workload is not found, finds no recommendation and ends in phase Ready
\* with 'No optimization opportunities found'; the workload, the snapshot
\* store, appliedOptimizations and totalSavings are as they were, and the
\* handler raises nothing.
C24_FailedAnalysisEndsReady ==
    [][(TickStep /\ AnalysisFailed) =>
          /\ ~last'.found /\ ~last'.attempted
          /\ status'.phase = "Ready"
          /\ status'.message = <<"No optimization opportunities found">>
          /\ UNCHANGED <<workload, redis, configmaps>>
          /\ status'.appliedOptimizations = status.appliedOptimizations
          /\ status'.totalSavings = status.totalSavings
          /\ ~last'.raised]_vars

\* After a tick that applied an optimization, a tick of the same auto-apply
\* declaration whose API call failed has ended Ready, with the workload and
\* the counters as the first tick left them.
C24_Witness ==
    /\ last.op = "tick" /\ last.api_answer = "error" /\ last.api_read = "ok"
    /\ ~last.found
    /\ auto_apply(decl) /\ ~dry_run(decl)
    /\ status.phase = "Ready"
    /\ status.message = <<"No optimization opportunities found">>
    /\ status.appliedOptimizations = 1
    /\ "optimized" \in workload.annotations

(***************************************************************************)
(* C25..C28: detect_patterns, bin_packing, the low-utilization rule of     *)
(* optimize_replicas and the risk filter of POST /optimize                 *)
(***************************************************************************)
\* (cpu_variance + memory_variance) / 2 > n / 100 for the request's metrics.
AverageVarianceAbove(n) ==
    LET v1 == calculate_variance(request.metrics.cpu_usage)
        v2 == calculate_variance(request.metrics.memory_usage)
    IN  (v1.num * v2.den + v2.num * v1.den) * 100 > 2 * n * v1.den * v2.den

\* (cpu_variance + memory_variance) / 2 < n / 100 for the request's metrics.
AverageVarianceBelow(n) ==
    avg_variance_below(calculate_variance(request.metrics.cpu_usage),
                       calculate_variance(request.metrics.memory_usage), n)

\* C25: detect_patterns sets the burst flag when the variance averaged
\* over cpu and memory is above 0.4, the steady flag when it is below
\* 0.15, and the business-hours flag otherwise.
C25_PatternByAverageVariance ==
    last.op = "detect_patterns" =>
        last.pattern = IF AverageVarianceAbove(40) THEN "burst"
                       ELSE IF AverageVarianceBelow(15) THEN "steady"
                       ELSE "business_hours"

\* C26: in the result of bin_packing every node has cpu_used and
\* memory_used within 85% of its capacity, every input workload is in
\* exactly one node, and required_nodes is the number of nodes that hold
\* a workload.
C26_BinsWithinCapacity ==
    last.op = "bin_packing" =>
        LET nodes == last.result.nodes
            holds(i, w) == \E j \in 1..Len(nodes[i].workloads) : nodes[i].workloads[j] = w
        IN  /\ \A i \in 1..Len(nodes) :
                  /\ nodes[i].cpu_used * 100 <= 85 * nodes[i].cpu_capacity
                  /\ nodes[i].memory_used * 100 <= 85 * nodes[i].memory_capacity
            /\ \A k \in 1..Len(request.workloads) :
                  Cardinality({i \in 1..Len(nodes) : holds(i, request.workloads[k])}) = 1
            /\ last.result.required_nodes
                  = Cardinality({i \in 1..Len(nodes) : Len(nodes[i].workloads) > 0})

\* The call of optimize_replicas was for a Deployment with two or more
\* replicas at a utilization below 30%.
LowUtilizationDeployment ==
    /\ ReplicasReturned
    /\ request.workload.kind = "Deployment" /\ request.workload.replicas >= 2
    /\ MaxUtilization < 300

\* C27: for a Deployment with two or more replicas, below 15% utilization
\* optimize_replicas returns ceil(current / 2), which is at least 1; from
\* 15% up to 30% it returns current - 1, for every replica count.
C27_LowUtilizationRule ==
    LowUtilizationDeployment =>
        IF MaxUtilization < 150
        THEN last.replicas = CeilDiv(request.workload.replicas, 2) /\ last.replicas >= 1
        ELSE last.replicas = request.workload.replicas - 1

\* C28: the recommendations POST /optimize returns for a request with a
\* body have a risk level at or below the body's max_risk_level in the
\* order low < medium < high < critical.
C28_ReturnedWithinMaxRisk ==
    (last.op = "optimize_workload" /\ request.body.given) =>
        \A i \in 1..Len(recommendations) :
            rank(recommendations[i].level) <= rank(request.body.max_risk_level)

(***************************************************************************)
(* C29, C30: the counters and the snapshot over several ticks              *)
(***************************************************************************)
\* C29: a tick that leaves the replicas and the containers' requests and
\* limits of the workload as they were does not end in phase Applied, and
\* leaves appliedOptimizations and totalSavings as they were.
C29_CountersGrowOnlyOnChange ==
    [][(/\ TickStep
        /\ workload'.replicas = workload.replicas
        /\ workload'.containers = workload.containers)
       => /\ status'.phase # "Applied"
          /\ status'.appliedOptimizations = status.appliedOptimizations
          /\ status'.totalSavings = status.totalSavings]_vars

\* C30: after a tick that applied an optimization and stored a snapshot,
\* every snapshot a tier holds for the workload is the one of the state
\* read in that tick, and it is the one a rollback loads.
C30_SnapshotIsOfLatestApply ==
    [][(TickStep /\ last'.success /\ last'.stored) =>
          /\ \A k \in DOMAIN redis' :
                redis'[k] = snapshot_state(target_name(decl), target_kind(decl),
                                           target_namespace(decl), workload)
          /\ \A k \in DOMAIN configmaps' :
                configmaps'[k] = snapshot_state(target_name(decl), target_kind(decl),
                                                target_namespace(decl), workload)
          /\ get_original_state(redis', configmaps', target_name(decl),
                                target_kind(decl), target_namespace(decl),
                                TRUE, "ok", "ok").state
                = snapshot_state(target_name(decl), target_kind(decl),
                                 target_namespace(decl), workload)]_vars

=============================================================================
